---------------------------- MODULE ServerMatching ----------------------------
(***************************************************************************)
(* The flavor and the image of a server, chosen from the two catalogs by   *)
(* what the capabilities host and os ask for                               *)
(* (src/translator/hot/tosca/tosca_compute.py), with the sizes converted   *)
(* by MemoryUnit (src/translator/common/utils.py).                         *)
(*                                                                         *)
(* A flavor is a record of numbers, an image maps metadata keys to values. *)
(* A value of a capability is a record: "absent", a "function" such as     *)
(* get_input, or a "size", a number written with or without a unit and     *)
(* with or without a decimal fraction.                                     *)
(***************************************************************************)
EXTENDS Integers, SequencesExt

CONSTANTS
    Queries,  \* records: flavors, images, host, os
    Hosts,    \* what other servers ask of the host
    None      \* no flavor, no image, no value

VARIABLES query, step, flavor, image

vars == <<query, step, flavor, image>>

-----------------------------------------------------------------------------
(* Sizes.                                                                  *)

\* UNIT_SIZE_DICT without the units of 2^31 bytes and more.
UnitSize(unit) ==
    CASE unit = "B"  -> 1        [] unit = "kB"  -> 1000
      [] unit = "MB" -> 1000000  [] unit = "GB"  -> 1000000000
      [] unit = "KiB" -> 1024    [] unit = "MiB" -> 1048576
      [] unit = "GiB" -> 1073741824

Units == {"B", "kB", "MB", "GB", "KiB", "MiB", "GiB"}

\* A value of a capability.
Value ==
    [is : {"absent", "function", "size"}, num : Nat, unit : Units \cup {None},
     fraction : BOOLEAN]

\* convert_unit_size_to_num: the expression stops at a decimal point, and the
\* unit that follows is lost.
ToNum(size, unit) ==
    IF size.unit # None /\ ~ size.fraction
    THEN (size.num * UnitSize(size.unit)) \div UnitSize(unit)
    ELSE size.num

\* Plausible bug: the unit is not converted.
AmountAsWritten(value, unit) == IF value.is = "size" THEN value.num ELSE 0

\* What reaches the filter; 0 and None are the same to it.
Amount(value, unit) == IF value.is = "size" THEN ToNum(value, unit) ELSE 0

-----------------------------------------------------------------------------
(* The flavor.                                                             *)

\* Plausible bug: a flavor has to be of just the size.
MatchFlavorsExactly(flavors, some, attr, size) ==
    IF size = 0 THEN some ELSE {f \in some : flavors[f][attr] = size}

\* _match_flavors: the positions of the flavors that are large enough.
MatchFlavors(flavors, some, attr, size) ==
    IF size = 0 THEN some ELSE {f \in some : flavors[f][attr] >= size}

\* A number of processors that is not an integer is met by no flavor.
MatchCpus(flavors, cpus) ==
    IF cpus.is = "function" THEN {}
    ELSE MatchFlavors(flavors, DOMAIN flavors, "num_cpus", Amount(cpus, "B"))

Fits(flavors, host) ==
    LET cpu == MatchCpus(flavors, host.num_cpus)
        mem == MatchFlavors(flavors, cpu, "mem_size", Amount(host.mem_size, "MB"))
    IN  MatchFlavors(flavors, mem, "disk_size", Amount(host.disk_size, "GB"))

\* _least_flavor: the first of those with the least memory.
Least(flavors, some) ==
    CHOOSE f \in some : \A g \in some :
        \/ flavors[f].mem_size < flavors[g].mem_size
        \/ flavors[f].mem_size = flavors[g].mem_size /\ f <= g

BestFlavor(flavors, host) ==
    IF Fits(flavors, host) = {} THEN None ELSE Least(flavors, Fits(flavors, host))

-----------------------------------------------------------------------------
(* The image.                                                              *)

\* Plausible bug: an image that matches goes to the end as well.
AppendMatch(images, prop, list, i, key) ==
    IF images[i][key] = None \/ images[i][key] = prop THEN Append(list, i) ELSE list

\* The body of the loops of _match_images.
PlaceImage(images, prop, list, i, key) ==
    IF images[i][key] = None THEN Append(list, i)
    ELSE IF images[i][key] = prop THEN <<i>> \o list
    ELSE list

\* The loop over the keys of one image.
PlaceByKeys(images, prop, list, i, keys) ==
    LET placed[k \in 0..Len(keys)] ==
            IF k = 0 THEN list ELSE PlaceImage(images, prop, placed[k - 1], i, keys[k])
    IN  placed[Len(keys)]

\* The loop over the images that matched so far.
MatchImages(images, some, keys, prop) ==
    LET matching[n \in 0..Len(some)] ==
            IF n = 0 THEN <<>> ELSE PlaceByKeys(images, prop, matching[n - 1], some[n], keys)
    IN  IF prop = None THEN some ELSE matching[Len(some)]

Keys(attr) ==
    CASE attr = "architecture" -> <<"architecture">>
      [] attr = "type"         -> <<"type", "os_type">>
      [] attr = "distribution" -> <<"distribution", "os_distro">>
      [] attr = "version"      -> <<"version", "os_version">>

Attributes == <<"architecture", "type", "distribution", "version">>

BestImage(images, os) ==
    LET Match(some, attr) == MatchImages(images, some, Keys(attr), os[attr])
        byArchitecture == Match([i \in DOMAIN images |-> i], "architecture")
        byType         == Match(byArchitecture, "type")
        byDistribution == Match(byType, "distribution")
        byVersion      == Match(byDistribution, "version")
    IN  IF byVersion = <<>> THEN None ELSE Head(byVersion)

-----------------------------------------------------------------------------
(* translate_compute_flavor_and_image.  Without properties of the host or  *)
(* of the os nothing is chosen.                                            *)

Asked(values, absent) == \E name \in DOMAIN values : values[name] # absent

Absent == [is |-> "absent", num |-> 0, unit |-> None, fraction |-> FALSE]

Flavors    == [mem_size : Nat, disk_size : Nat, num_cpus : Nat]
Properties == [mem_size : Value, disk_size : Value, num_cpus : Value]

ASSUME QueriesAssumption ==
    /\ None \notin Nat /\ None \notin Units
    /\ Hosts \subseteq Properties
    /\ \A q \in Queries :
            /\ q.flavors \in Seq(Flavors) /\ q.images \in Seq(ToSet(q.images))
            /\ q.host \in Properties \/ ~ Asked(q.host, Absent)

Init ==
    /\ query \in Queries
    /\ step = "flavor" /\ flavor = None /\ image = None

ChooseFlavor ==
    /\ step = "flavor"
    /\ flavor' = IF Asked(query.host, Absent)
                 THEN BestFlavor(query.flavors, query.host) ELSE None
    /\ step' = "image"
    /\ UNCHANGED <<query, image>>

ChooseImage ==
    /\ step = "image"
    /\ image' = IF Asked(query.os, None)
                THEN BestImage(query.images, query.os) ELSE None
    /\ step' = "done"
    /\ UNCHANGED <<query, flavor>>

Next == ChooseFlavor \/ ChooseImage

Spec == Init /\ [][Next]_vars

-----------------------------------------------------------------------------
(* Properties.                                                             *)

\* The value is written without fraction, or not at all.
Plain(value) == value.is # "function" /\ ~ value.fraction

\* A host that asks for as much or more of everything.
AsksMore(more, host) ==
    \A name \in DOMAIN host :
        /\ Plain(more[name]) /\ Plain(host[name])
        /\ \A unit \in {"B", "MB", "GB"} :
                Amount(host[name], unit) <= Amount(more[name], unit)

\* Who asks for more does not get a server with less memory; in particular a
\* size of which nothing is left after the conversion asks for nothing.
MoreForMore ==
    step = "image" /\ Asked(query.host, Absent) =>
        \A more \in Hosts :
            /\ AsksMore(more, query.host)
            /\ BestFlavor(query.flavors, more) # None
            => /\ flavor # None
               /\ query.flavors[flavor].mem_size
                    <= query.flavors[BestFlavor(query.flavors, more)].mem_size

\* The image has what is asked for under one of its keys.
Has(i, attr) ==
    \/ query.os[attr] = None
    \/ \E k \in DOMAIN Keys(attr) : query.images[i][Keys(attr)[k]] = query.os[attr]

\* _match_images drops an image only for another architecture.
Kept(i) == query.images[i]["architecture"] \in {None, query.os["architecture"]}
           \/ query.os["architecture"] = None

AskedAttributes == {a \in DOMAIN Attributes : query.os[Attributes[a]] # None}

\* An image of another architecture is never chosen, and the attribute that is
\* compared last decides: the image has it if one of that architecture does.
LastAttributeDecides ==
    step = "done" /\ image # None =>
        /\ Kept(image)
        /\ \A a \in AskedAttributes :
                (\A b \in AskedAttributes : b <= a) =>
                    \/ Has(image, Attributes[a])
                    \/ \A i \in DOMAIN query.images :
                            Kept(i) => ~ Has(i, Attributes[a])

\* Under one of the keys of an attribute, but for the architecture, the images
\* say nothing: they have the older or the newer key.
OneKey(images) ==
    \A i \in DOMAIN images : \A attr \in {"type", "distribution", "version"} :
        \E k \in DOMAIN Keys(attr) : images[i][Keys(attr)[k]] = None

\* "flavors that fit the mem size" (tosca_compute.py:114): the server has the
\* memory that is asked for, but for less than one MB.  A number with a decimal
\* fraction is left out: convert_unit_size_to_num loses its unit.
FlavorFits ==
    flavor # None /\ query.host.mem_size.is = "size"
    /\ query.host.mem_size.unit # None /\ Plain(query.host.mem_size) =>
        (query.flavors[flavor].mem_size + 1) * UnitSize("MB")
            > query.host.mem_size.num * UnitSize(query.host.mem_size.unit)

\* What is chosen is what was asked for.
ChoiceFits == FlavorFits /\ LastAttributeDecides

=============================================================================
