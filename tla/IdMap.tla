--------------------------------- MODULE IdMap ---------------------------------
(***************************************************************************)
(* UIDMap= and GIDMap= of a container (_resolve_id_maps in                 *)
(* services/quadlet_writer.py): from the ids a user maps to helper users   *)
(* to entries that are to cover every id of the container.  In the user    *)
(* namespace of rootless Podman 0 is the service user, and m > 0 is the    *)
(* (m-1)-th of its subordinate ids.                                        *)
(***************************************************************************)
EXTENDS Integers, FiniteSetsExt

Entry(from, to, len) == [from |-> from, to |-> to, len |-> len]

\* prev_end in the round of the loop for id c: after the id of the round before.
PrevEnd(explicit, c) == Max({0} \cup {d + 1 : d \in {e \in explicit : e < c}})

Gap(explicit, c) ==
    LET end == PrevEnd(explicit, c) IN IF c > end THEN {Entry(end, end + 1, c - end)} ELSE {}

Single(c) == Entry(c, IF c = 0 THEN 0 ELSE c + 1, 1)

\* size is _UID_NAMESPACE_SIZE.  What follows the last id is one more gap.
ResolveIdMaps(ids, size) ==
    LET explicit == ids \cup {0}
    IN  IF ids = {} THEN {}
        ELSE (UNION {Gap(explicit, c) : c \in explicit \cup {size}})
             \cup {Single(c) : c \in explicit}

\* The ids of the user namespace that the entries give to an id of the container.
MappedTo(entries, id) ==
    {e.to + (id - e.from) : e \in {f \in entries : f.from <= id /\ id < f.from + f.len}}

\* Whatever ids a user maps, each id of the container has one entry: "Container 0 -> NS 0",
\* "Container N>0 -> NS N+1" (_resolve_id_maps), and nothing else is mapped.
Tiles(size) ==
    \A ids \in (SUBSET (0 .. size - 1)) \ {{}} :
        LET entries == ResolveIdMaps(ids, size)
        IN  /\ \A id \in 0 .. size - 1 :
                  /\ Cardinality({e \in entries : e.from <= id /\ id < e.from + e.len}) = 1
                  /\ MappedTo(entries, id) = {IF id = 0 THEN 0 ELSE id + 1}
            /\ \A e \in entries : e.len > 0 /\ e.from + e.len <= size
=============================================================================
