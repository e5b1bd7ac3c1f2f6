--------------------------------- MODULE Lists ---------------------------------
(***************************************************************************)
(* The operations on lists that the modules of screens and jobs need.  As  *)
(* in SequencesExt, but these alone: the proofs instantiate some fifteen   *)
(* of those modules, and would bring all of SequencesExt with each.        *)
(***************************************************************************)
EXTENDS Naturals, Sequences, FiniteSets

ToSet(list) == {list[i] : i \in DOMAIN list}

Last(list) == list[Len(list)]

\* list.filter((_, j) => j !== i)
RemoveAt(list, i) == SubSeq(list, 1, i - 1) \o SubSeq(list, i + 1, Len(list))

\* The list without the first place that holds x.
RemoveFirst(list, x) ==
  IF x \notin ToSet(list) THEN list
  ELSE RemoveAt(list, CHOOSE i \in DOMAIN list :
                        list[i] = x /\ \A j \in DOMAIN list : list[j] = x => i <= j)

\* The orders a finite set can be listed in, and one of them.
SetToSeqs(S) ==
  {list \in [1 .. Cardinality(S) -> S] : \A i, j \in DOMAIN list : i # j => list[i] # list[j]}

SetToSeq(S) == CHOOSE list \in SetToSeqs(S) : TRUE

\* list.filter(x => S.has(x)).  A recursive function and not SelectSeq, whose definition the
\* provers do not see.
Filter(list, S) ==
  LET kept[n \in 0 .. Len(list)] ==
        IF n = 0 THEN <<>>
        ELSE IF list[n] \in S THEN Append(kept[n - 1], list[n]) ELSE kept[n - 1]
  IN kept[Len(list)]
=============================================================================
