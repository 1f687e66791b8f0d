----------------------------- MODULE MCQueries ------------------------------
\* Queries for TLC: well-formed replies to Level 0 Discovery with up to four
\* features in any order, and replies that are empty, too long for one or both
\* alignments of the buffer, cut, followed by zeros, or that repeat a feature or
\* lack a field.
EXTENDS Queries

Item(name, length, id, locks) == [code |-> name, length |-> length, comId |-> id, locks |-> locks]
TPer == Item("tper", 12, 0, {})
Locking == Item("locking", 12, 0, {"enabled", "locked"})
OpalV1 == Item("opalV1", 16, 1, {})
OpalV2 == Item("opalV2", 16, 2, {})
Enterprise == Item("enterprise", 16, 3, {})
Vendor == Item("vendor", 255, 0, {})

Reply(items) == [length |-> Start([items |-> items], Len(items) + 1) - 4, items |-> items]

Items == {TPer, Locking, OpalV1, OpalV2, Enterprise, Vendor}
Orders == UNION {{s \in [1 .. n -> Items] : Cardinality(ToSet(s)) = n} : n \in 1 .. 4}

MCReplies ==
  {Reply(items) : items \in Orders} \cup
  { [length |-> 0, items |-> <<>>],
    [length |-> 2500, items |-> <<TPer, Locking, OpalV2>>],
    [length |-> 4000, items |-> <<TPer, Locking, OpalV2>>],
    [length |-> 60, items |-> <<TPer, Locking, OpalV2>>],
    [length |-> 200, items |-> <<Locking, [Locking EXCEPT !.locks = {}], Item("opalV1", 0, 0, {})>>] }
=============================================================================
