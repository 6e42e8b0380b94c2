-------------------------- MODULE MCServerMatching --------------------------
(* Queries for ServerMatching.                                             *)
EXTENDS ServerMatching

Flavor(mem, disk, cpus) == [mem_size |-> mem, disk_size |-> disk, num_cpus |-> cpus]

\* Three flavors, two with the same memory, in three orders.
FlavorLists ==
    LET small == Flavor(1, 0, 1)  wide == Flavor(512, 2, 4)  long == Flavor(512, 20, 1)
        large == Flavor(1024, 20, 4)
    IN  {<<small, wide, long, large>>, <<large, long, wide, small>>,
         <<wide, small, large, long>>}

Size(num, unit) == [Absent EXCEPT !.is = "size", !.num = num, !.unit = unit]

Function == [Absent EXCEPT !.is = "function"]

Half(num, unit) == [Size(num, unit) EXCEPT !.fraction = TRUE]

HostsOf(cpus, sizes, disks) ==
    {[num_cpus |-> c, mem_size |-> m, disk_size |-> d] :
        c \in cpus, m \in sizes, d \in disks}

NoImage == [key \in {"architecture", "type", "distribution", "version",
                     "os_type", "os_distro", "os_version"} |-> None]

NoOs == [architecture |-> None, type |-> None, distribution |-> None, version |-> None]

FlavorQueries(hosts) ==
    {[flavors |-> list, images |-> <<NoImage>>, host |-> h, os |-> NoOs] :
        list \in FlavorLists, h \in hosts}

Described(architectures, distros, versions) ==
    {[NoImage EXCEPT !["architecture"] = a, !["os_type"] = "linux",
                     !["os_distro"] = d, !["os_version"] = v] :
        a \in architectures, d \in distros, v \in versions}

ImageQueries(images, architectures) ==
    {[flavors |-> <<>>, images |-> list, host |-> [num_cpus |-> Absent], os |-> os] :
        list \in images \X images \X images,
        os \in {[architecture |-> a, type |-> t, distribution |-> d, version |-> v] :
                    a \in architectures, t \in {"linux", None},
                    d \in {"rhel", None}, v \in {"6", None}}}

\* Three images in every order, with all metadata or without some.
AllImages ==
    ImageQueries(Described({"x86_64"}, {"rhel", "ubuntu"}, {"6", "7"}), {"x86_64", None})
    \cup ImageQueries(Described({"x86_64", "arm", None}, {"rhel"}, {"6", None}),
                      {"x86_64", None})
    \cup ImageQueries(Described({None}, {"rhel", "ubuntu", None}, {"6", "7"}), {None})

Sizes == {Absent, Function, Size(0, None), Size(512, None), Size(1500, "kB"),
          Size(512, "MB"), Size(1, "GB"), Half(1, "GB")}

PlainHosts ==
    HostsOf({Absent, Function, Size(2, None), Size(4, None)}, Sizes,
          {Absent, Size(1, "MB"), Size(1, "GB"), Size(2, "GB"), Size(20, None)})

AllQueries == FlavorQueries(PlainHosts) \cup AllImages

ASSUME ImagesAssumption == \A q \in AllQueries : OneKey(q.images)

=============================================================================
