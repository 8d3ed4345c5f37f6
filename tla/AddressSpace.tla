---------------------------- MODULE AddressSpace ----------------------------
(***************************************************************************)
(* The asinfo section of the system page: a table of address ranges, each  *)
(* owned by an earlier entry of the table.  as_add(), as_find(),           *)
(* as_find_containing() and as_add_containing() are operators on such a    *)
(* table.  Offsets into the section are indices; AS_NULL_OFF is 0.         *)
(***************************************************************************)
EXTENDS Integers, SequencesExt, FiniteSetsExt

AS_NULL_OFF == 0

\* cont is AS_ATTR_CONTINUED.  The other attributes and the priority only
\* travel with the entry.
AsEntry(start, end, owner, name, cont) ==
    [start |-> start, end |-> end, owner |-> owner, name |-> name, cont |-> cont]

as_add(asinfo, entry) == Append(asinfo, entry)

\* match_name: the entry, or one of the entries that own it, has this name.
MatchName(asinfo, i, name) ==
    LET match[k \in 0 .. Len(asinfo)] ==
            k # AS_NULL_OFF /\ (asinfo[k].name = name \/ match[asinfo[k].owner])
    IN  match[i]

\* match_item: the entry and its owners carry the names, the innermost last.
MatchItem(asinfo, i, names) ==
    LET at[k \in 0 .. Len(names) - 1] == IF k = 0 THEN i ELSE
            IF at[k - 1] = AS_NULL_OFF THEN AS_NULL_OFF ELSE asinfo[at[k - 1]].owner
    IN  \A k \in DOMAIN at : at[k] # AS_NULL_OFF /\ asinfo[at[k]].name = names[Len(names) - k]

\* The first such entry behind start.
as_find(asinfo, start, names) ==
    LET found == {i \in start + 1 .. Len(asinfo) : MatchItem(asinfo, i, names)}
    IN  IF found = {} THEN AS_NULL_OFF ELSE Min(found)

\* The three conditions of as_find_containing(), of which the name promises
\* less: the ranges need only meet.
Meets(as, start, end) ==
    \/ start >= as.start /\ start <= as.end
    \/ end >= as.start /\ end <= as.end
    \/ start <= as.start /\ end >= as.end

\* The entries that successive calls of as_find_containing() return, which go
\* up the table.
Containing(asinfo, start, end, name) ==
    {i \in DOMAIN asinfo : MatchName(asinfo, i, name) /\ Meets(asinfo[i], start, end)}

-----------------------------------------------------------------------------
(* as_add_containing(): the range is divided among its containers.         *)

\* The part of [start, end] that lies in container i.
Clip(asinfo, i, start, end) ==
    [start |-> IF asinfo[i].start > start THEN asinfo[i].start ELSE start,
     end |-> IF asinfo[i].end < end THEN asinfo[i].end ELSE end,
     owner |-> i]

\* A piece whose start lies in a piece already listed takes its place there;
\* the rest of the older piece keeps its owner.  A rest that is empty, which
\* the last loop would skip, is not listed.
PlacePieceOuterKept(list, piece) ==
    IF \E k \in DOMAIN list : list[k].start <= piece.start /\ piece.start <= list[k].end
    THEN list ELSE Append(list, piece)

PlacePiece(list, piece) ==
    LET over == {k \in DOMAIN list :
                    list[k].start <= piece.start /\ piece.start <= list[k].end}
        k == Min(over)
        curr == list[k]
        before == IF curr.start = piece.start THEN <<>>
                  ELSE <<[curr EXCEPT !.end = piece.start - 1]>>
        after == IF curr.end <= piece.end THEN <<>>
                 ELSE <<[curr EXCEPT !.start = piece.end + 1]>>
    IN  IF over = {} THEN Append(list, piece)
        ELSE SubSeq(list, 1, k - 1) \o before \o <<piece>> \o after
                 \o SubSeq(list, k + 1, Len(list))

\* The list after each entry of the table.
Pieces(asinfo, start, end, container) ==
    LET list[i \in 0 .. Len(asinfo)] ==
            IF i = 0 THEN <<>>
            ELSE IF i \in Containing(asinfo, start, end, container)
            THEN PlacePiece(list[i - 1], Clip(asinfo, i, start, end)) ELSE list[i - 1]
    IN  list[Len(asinfo)]

\* Every piece but the last is marked as continued by the next entry.
as_add_containing_all_continued(asinfo, start, end, name, container) ==
    LET list == Pieces(asinfo, start, end, container)
    IN  asinfo \o [k \in DOMAIN list |->
            AsEntry(list[k].start, list[k].end, list[k].owner, name, TRUE)]

as_add_containing(asinfo, start, end, name, container) ==
    LET list == Pieces(asinfo, start, end, container)
    IN  asinfo \o [k \in DOMAIN list |->
            AsEntry(list[k].start, list[k].end, list[k].owner, name, k # Len(list))]

-----------------------------------------------------------------------------
(* What the table promises.                                                *)

AsBytes(as) == as.start .. as.end

Named(asinfo, name) == {i \in DOMAIN asinfo : asinfo[i].name = name}

\* An entry lies inside its owner, which was added before it.
Nested(asinfo) ==
    \A i \in DOMAIN asinfo :
        LET as == asinfo[i] IN
        /\ as.start <= as.end
        /\ as.owner < i
        /\ as.owner # AS_NULL_OFF => AsBytes(as) \subseteq AsBytes(asinfo[as.owner])

\* Following AS_ATTR_CONTINUED, as as_set_priority() does, stays in the table
\* and on entries of one name.
Chained(asinfo) ==
    \A i \in DOMAIN asinfo :
        asinfo[i].cont => i < Len(asinfo) /\ asinfo[i + 1].name = asinfo[i].name
=============================================================================
