------------------------------- MODULE Catalog -------------------------------
(***************************************************************************)
(* The catalogs of flavors and images a server is matched with:            *)
(* get_flavors (src/translator/common/flavors.py) and get_images           *)
(* (src/translator/common/images.py).  Each fills a dictionary of its      *)
(* module once per process, from OpenStack if there is a session, else     *)
(* from predefined entries.  The process outlives a translation: the       *)
(* OpenStack client and other programs call the translator repeatedly.     *)
(***************************************************************************)
EXTENDS FiniteSets

CONSTANTS
    Catalogs,    \* "flavors" and "images"
    Paged,       \* the catalogs whose listing arrives in pages
    Entry,       \* the entries OpenStack may list
    Described,   \* per catalog: the entries that have what is matched with
    Predefined,  \* PREDEF_FLAVORS, PREDEF_IMAGES
    NoCall       \* not a catalog

ASSUME CatalogAssumption ==
    /\ Paged \subseteq Catalogs /\ NoCall \notin Catalogs
    /\ Described \in [Catalogs -> SUBSET Entry]
    /\ Predefined # {} /\ Predefined \cap Entry = {}

VARIABLES
    client,   \* client_available
    session,  \* SESSION is not None
    served,   \* per catalog: what OpenStack lists
    cache,    \* per catalog: FLAVORS, IMAGES
    call,     \* the catalog that is being filled
    unread,   \* the entries of the listing that are still to be read
    listed,   \* per catalog: the last listing that was begun
    broken,   \* the catalogs a listing of which has broken off
    answer    \* per catalog: what the last call returned; {} before it

outside == <<client, session, served>>
listing == <<call, unread, listed>>
catalogVars == <<outside, cache, listing, broken, answer>>

CatalogTypeOK ==
    /\ client \in BOOLEAN /\ session \in BOOLEAN
    /\ served \in [Catalogs -> SUBSET Entry]
    /\ cache  \in [Catalogs -> SUBSET (Entry \cup Predefined)]
    /\ call \in Catalogs \cup {NoCall} /\ unread \subseteq Entry
    /\ listed \in [Catalogs -> SUBSET Entry]
    /\ broken \subseteq Catalogs
    /\ answer \in [Catalogs -> SUBSET (Entry \cup Predefined)]

CatalogInit ==
    /\ client \in BOOLEAN /\ session \in BOOLEAN
    /\ served \in [Catalogs -> SUBSET Entry]
    /\ cache = [c \in Catalogs |-> {}] /\ answer = [c \in Catalogs |-> {}]
    /\ call = NoCall /\ unread = {}
    /\ listed = [c \in Catalogs |-> {}] /\ broken = {}

-----------------------------------------------------------------------------
(* The process between calls, and OpenStack at any time.                   *)

SetSession ==
    /\ call = NoCall
    /\ session' \in BOOLEAN
    /\ UNCHANGED <<client, served, cache, listing, broken, answer>>

Serve(c) ==
    /\ \E entries \in SUBSET Entry : served' = [served EXCEPT ![c] = entries]
    /\ UNCHANGED <<client, session, cache, listing, broken, answer>>

-----------------------------------------------------------------------------
(* A call.                                                                 *)

\* Plausible bug: the predefined entries are not cached.
AnswerUncached(c, entries) ==
    /\ cache'  = [cache EXCEPT ![c] = entries \ Predefined]
    /\ answer' = [answer EXCEPT ![c] = entries]

Answer(c, entries) ==
    /\ cache'  = [cache EXCEPT ![c] = entries]
    /\ answer' = [answer EXCEPT ![c] = entries]

\* if FLAVORS: return FLAVORS
Cached(c) == cache[c] # {}

AnswerCached(c) ==
    /\ call = NoCall /\ Cached(c)
    /\ Answer(c, cache[c])
    /\ UNCHANGED <<outside, listing, broken>>

Reachable == session /\ client

\* Plausible bug: the predefined entries are added to those of OpenStack.
FilledWithPredefined(entries) == entries \cup Predefined

\* if not FLAVORS: FLAVORS = PREDEF_FLAVORS
Filled(entries) == IF entries = {} THEN Predefined ELSE entries

\* No session or no client.
FallBack(c) ==
    /\ call = NoCall /\ ~ Cached(c) /\ ~ Reachable
    /\ Answer(c, Filled(cache[c]))
    /\ UNCHANGED <<outside, listing, broken>>

\* The constructor of the client raises.  Its handler logs through _, which
\* neither module imports: the call falls back if the program has made _ a
\* builtin, and raises NameError otherwise.
ConstructorRaises(c) ==
    /\ call = NoCall /\ ~ Cached(c) /\ Reachable
    /\ Answer(c, Filled(cache[c])) \/ UNCHANGED <<cache, answer>>
    /\ UNCHANGED <<outside, listing, broken>>

\* A listing is what OpenStack lists when it is begun.
Connect(c) ==
    /\ call = NoCall /\ ~ Cached(c) /\ Reachable
    /\ call' = c /\ unread' = served[c]
    /\ listed' = [listed EXCEPT ![c] = served[c]]
    /\ UNCHANGED <<outside, cache, broken, answer>>

\* Plausible bug: an entry is read again and again.
RestUnread(entry) == unread

Rest(entry) == unread \ {entry}

ReadEntry ==
    /\ call # NoCall
    /\ \E entry \in unread :
        /\ unread' = Rest(entry)
        /\ cache'  = [cache EXCEPT ![call] = @ \cup ({entry} \cap Described[call])]
    /\ UNCHANGED <<outside, call, listed, broken, answer>>

\* An exception of OpenStack: before the first entry, or between two pages.
\* Nothing catches it and what was read stays.
Break ==
    /\ call # NoCall
    /\ call \in Paged \/ unread = listed[call]
    /\ broken' = broken \cup {call}
    /\ call' = NoCall /\ unread' = {}
    /\ UNCHANGED <<outside, cache, listed, answer>>

EndListing ==
    /\ call # NoCall /\ unread = {}
    /\ Answer(call, Filled(cache[call]))
    /\ call' = NoCall
    /\ UNCHANGED <<outside, unread, listed, broken>>

CatalogNext ==
    \/ SetSession
    \/ \E c \in Catalogs :
            Serve(c) \/ AnswerCached(c) \/ FallBack(c) \/ ConstructorRaises(c) \/ Connect(c)
    \/ ReadEntry \/ Break \/ EndListing

\* A call that runs goes on; that one is made, or that OpenStack changes, is
\* not certain.
CatalogSpec ==
    /\ CatalogInit /\ [][CatalogNext]_catalogVars
    /\ WF_catalogVars(ReadEntry) /\ WF_catalogVars(EndListing)

-----------------------------------------------------------------------------
(* Properties.                                                             *)

\* The predefined entries, or the listing of OpenStack and all of it.
Whole(c, entries) ==
    entries = Predefined \/ entries = listed[c] \cap Described[c]

\* Servers are matched with a whole catalog, not with a part of a listing and
\* not with entries of both sources, as long as no listing broke off.
WholeUnlessBroken ==
    \A c \in Catalogs \ broken : answer[c] # {} => Whole(c, answer[c])

\* "Handles any exception coming from openstack" (flavors.py:50): of a listing
\* that breaks off nothing is left that a later call returns.
WholeAnswers == \A c \in Catalogs : answer[c] # {} => Whole(c, answer[c])

\* Every server of every translation is matched with the same catalog, even
\* when the session is replaced or OpenStack lists something else.
AnswersStable ==
    [][\A c \in Catalogs : answer[c] # {} => answer'[c] = answer[c]]_catalogVars

\* A call returns or raises, whatever OpenStack lists in the meantime.
CallsEnd == call # NoCall ~> call = NoCall

=============================================================================
