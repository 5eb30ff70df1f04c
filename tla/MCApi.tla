------------------------------- MODULE MCApi -------------------------------
(***************************************************************************)
(* Instances of Api for TLC: two servers, keys "a", "ab" and "b", and the  *)
(* requests of the callers.                                                *)
(***************************************************************************)
EXTENDS Api, SequencesExt

CONSTANTS a1, a2, c1

Servers == Permutations({a1, a2})

Keys == {<<1>>, <<1, 2>>, <<2>>}

\* "" and "a*".
Patterns == {<<>>, <<1, Star>>}

\* matchGlob finds what a pattern means, for every pattern and text of up to three
\* characters over two letters.
ASSUME GlobIsMatches ==
  \A pattern \in BoundedSeq({1, 2, Star}, 3), text \in BoundedSeq({1, 2}, 3) :
    MatchGlob(pattern, text) <=> Matches(pattern, text)

One  == <<"canonical", 1>>
Word == <<"word", 0>>

Requests ==
  {<<"get", <<1>>>>, <<"put", <<1>>, Word>>, <<"put", <<1, 2>>, Word>>, <<"delete", <<2>>>>, <<"expire", <<1>>, 0>>,
   <<"expire", <<1>>, 1>>, <<"incr", <<1>>>>, <<"cas", <<1>>, One, Word>>}

Commands ==
  {<<"put", k, Word>> : k \in Keys} \cup {<<"incr", k>> : k \in Keys}
    \cup {<<"cas", k, One, Word>> : k \in Keys} \cup {<<"expire", k, 3>> : k \in Keys}

\* The keys "a" with and without a deadline, and "b".
Stored(v, at) == [Value |-> v, Exp |-> at]

Filled ==
  {[k \in Keys |-> IF k = <<1>> THEN Stored(One, at)
                   ELSE IF k = <<2>> THEN Stored(Word, 0) ELSE Absent] : at \in {0, 2}}
=============================================================================
