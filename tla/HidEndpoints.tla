----------------------------- MODULE HidEndpoints -----------------------------
(***************************************************************************)
(* How the endpoints of HID devices are told apart.                        *)
(*                                                                         *)
(* hidapi lists one entry per top-level collection, with its path, usage,  *)
(* usage page and interface, and the group NormalizeDevicePath makes of    *)
(* the path: what the collections of one device have in common.  Windows   *)
(* gives every collection a path of its own; on Linux the collections of   *)
(* an interface share theirs.  Paths are numbers, in the order of          *)
(* std::map's keys.                                                        *)
(***************************************************************************)
EXTENDS Integers, Sequences, FiniteSets, FiniteSetsExt

CONSTANT Descriptor   \* the report descriptor of each path: its top-level
                      \* collections, [usage, page, collection], in order

ASSUME DescriptorAssumption ==
  \A path \in DOMAIN Descriptor :
    /\ path \in Nat /\ Len(Descriptor[path]) \in Nat
    /\ \A n \in 1..Len(Descriptor[path]) : Descriptor[path][n].collection \in Nat

NoHandle == 0

-----------------------------------------------------------------------------
(* HidBackend::AssignCollectionIndices.                                    *)

\* ParseHidTopLevelCollections of ReadReportDescriptor: nothing if the path
\* cannot be opened.
Parsed(path, readable) == IF path \in readable THEN Descriptor[path] ELSE <<>>

OnInterface(list, i) ==
  {j \in 1..Len(list) : list[j].group = list[i].group /\ list[j].interface = list[i].interface}

OnPath(list, i) == {j \in OnInterface(list, i) : list[j].path = list[i].path}

\* The numbers there are on the path of entry i: one for each of its entries,
\* and all up to those of its descriptor.
CollectionSlots(list, i, readable) ==
  LET parsed == Parsed(list[i].path, readable)
  IN 0..Cardinality(OnPath(list, i)) - 1
       \cup UNION {0..parsed[n].collection : n \in 1..Len(parsed)}

\* Mutant of LocalCollection: the order of the list alone counts.
LocalCollectionByOrder(list, readable) ==
  [i \in 1..Len(list) |-> Cardinality(OnPath(list, i) \cap 1..i - 1)]

\* The number of each entry on its path: that of the first collection with its
\* usage which no earlier entry has taken, or else the first that is free.
LocalCollection(list, readable) ==
  LET local[i \in 1..Len(list)] ==
        LET parsed == Parsed(list[i].path, readable)
            taken == {local[j] : j \in OnPath(list, i) \cap 1..i - 1}
            same == {n \in 1..Len(parsed) : /\ parsed[n].usage = list[i].usage
                                            /\ parsed[n].page = list[i].page
                                            /\ parsed[n].collection \notin taken}
            free == CollectionSlots(list, i, readable) \ taken
        IN IF same # {} THEN parsed[Min(same)].collection
           ELSE IF free # {} THEN Min(free) ELSE 0
  IN local

\* Mutant of AssignCollectionIndices: the numbers of every path start at 0.
AssignCollectionIndicesByPath(list, readable) == LocalCollection(list, readable)

\* The slots of the paths that come before that of entry i on its interface.
SlotsBefore(list, i, readable) ==
  UNION {{list[j].path} \X CollectionSlots(list, j, readable) :
           j \in {k \in OnInterface(list, i) : list[k].path < list[i].path}}

\* The paths of an interface are numbered one after the other.
AssignCollectionIndices(list, readable) ==
  LET local == LocalCollection(list, readable)
  IN [i \in 1..Len(list) |-> Cardinality(SlotsBefore(list, i, readable)) + local[i]]

EndpointKey(entry, collection) ==
  [interface |-> entry.interface, usage |-> entry.usage, page |-> entry.page,
   collection |-> collection]

-----------------------------------------------------------------------------
(* FindEndpointHandle: what device.set_endpoint selects.                   *)

VendorPages == 65280

UsagePagesCompatible(a, b) == a = b \/ (a >= VendorPages /\ b >= VendorPages)

\* The endpoints that agree with what the script asks for; collection -1 is any.
Matching(handles, asked, anyInterface, anyVendorPage) ==
  {key \in DOMAIN handles :
     /\ key.usage = asked.usage
     /\ asked.collection >= 0 => key.collection = asked.collection
     /\ anyInterface \/ key.interface = asked.interface
     /\ key.page = asked.page \/ (anyVendorPage /\ UsagePagesCompatible(key.page, asked.page))}

\* From the strictest search to the loosest.
Searches(handles, asked) ==
  << Matching(handles, asked, FALSE, FALSE), Matching(handles, asked, FALSE, TRUE),
     Matching(handles, asked, TRUE, FALSE), Matching(handles, asked, TRUE, TRUE) >>

\* Mutant of FindEndpointHandle: the first of several endpoints will do.
FindFirstHandle(handles, asked) ==
  LET all == Matching(handles, asked, TRUE, TRUE)
  IN IF asked \in DOMAIN handles THEN handles[asked]
     ELSE IF all = {} THEN NoHandle ELSE Min({handles[key] : key \in all})

\* The endpoint of that very key, or that of the first search with one result.
FindEndpointHandle(handles, asked) ==
  LET searches == Searches(handles, asked)
      single == {n \in 1..4 : Cardinality(searches[n]) = 1}
  IN IF asked \in DOMAIN handles THEN handles[asked]
     ELSE IF single = {} THEN NoHandle
     ELSE handles[CHOOSE key \in searches[Min(single)] : TRUE]

=============================================================================
