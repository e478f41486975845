---------------------------- MODULE MCEngineFeed ----------------------------
(* Instances of the engine feed for TLC. *)
EXTENDS EngineFeedProperties, TLC

CONSTANTS g1, g2, r1, r2

Fresh(g, symbols) == [gateway |-> g, symbols |-> symbols, from_seq |-> <<>>]

Resume(g, s, wanted) == [gateway |-> g, symbols |-> {s}, from_seq |-> s :> wanted]

OneSymbol == {1}

TwoSymbols == {1, 2}

OneWorker == [s \in {1} |-> 1]

TwoWorkers == [s \in {1, 2} |-> s]

StreamsAlike == Permutations({r1, r2})

Alike == Permutations({g1, g2}) \cup StreamsAlike

FreshRequests == {Fresh(g1, {})}

\* Snapshots of all symbols, replays of all symbols; no gateway, an unknown
\* symbol, and a replay of a symbol that was not asked for.
MixedRequests ==
  {Fresh(g1, {}), [gateway |-> g1, symbols |-> {}, from_seq |-> 1 :> 1 @@ 2 :> 1],
   Fresh(None, {}), Fresh(g1, {3}),
   [gateway |-> g1, symbols |-> {1}, from_seq |-> 2 :> 1]}

\* One gateway comes for snapshots and resumes from each number, and one more.
ResumeRequests == {Fresh(g1, {})} \cup {Resume(g1, 1, n) : n \in 1 .. 4}

=============================================================================
