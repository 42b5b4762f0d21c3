--------------------------- MODULE NetworkConfig ----------------------------
(***************************************************************************)
(* RawNetworkConfig (src/network/config.rs): nodes are added and truncated  *)
(* in any order, and build sorts them by rank and validates the ranks.      *)
(***************************************************************************)
EXTENDS Naturals, Sequences, FiniteSets

CONSTANTS
  RankIds,   \* rank ids a node may be given
  MaxHosts   \* bound: number of nodes added

ASSUME ConfigAssumption == RankIds \subseteq Nat /\ MaxHosts \in Nat

VARIABLES
  hosts,    \* RawNetworkConfig::hosts, as rank ids
  outcome,  \* what build has answered; "raw" before, "taken" once the network is in use
  network   \* NetworkConfig::hosts once built

configVars == <<hosts, outcome, network>>

ConfigInit == hosts = << >> /\ outcome = [kind |-> "raw"] /\ network = << >>

IsRaw == outcome.kind = "raw"

add_node(r) ==
  /\ IsRaw /\ Len(hosts) < MaxHosts
  /\ hosts' = Append(hosts, r)
  /\ UNCHANGED <<outcome, network>>

truncate(n) ==
  /\ IsRaw
  /\ hosts' = SubSeq(hosts, 1, IF n < Len(hosts) THEN n ELSE Len(hosts))
  /\ UNCHANGED <<outcome, network>>

\* sort_by_key, which is stable: where host i comes to stand, and the list so ordered.
UpTo(s, i) == {j \in 1..Len(s) : s[j] < s[i] \/ (s[j] = s[i] /\ j <= i)}
Position(s, i) == Cardinality(UpTo(s, i))
ByRank(s) == [k \in 1..Len(s) |-> s[CHOOSE i \in 1..Len(s) : Position(s, i) = k]]

\* Mutant: the duplicate test comes after the gap test.
first_fault_gap_first(s) ==
  LET bad == {i \in 1..(Len(s) - 1) : s[i + 1] # i}
      i == CHOOSE i \in bad : \A j \in bad : i <= j
  IN  IF bad = {} THEN [kind |-> "Ok"] ELSE [kind |-> "NonSequentialRanks", rank |-> i]

\* The loop of build over the sorted list s: the first host that repeats the rank
\* before it or is not at its index decides.
first_fault(s) ==
  LET bad == {i \in 1..(Len(s) - 1) : s[i + 1] = s[i] \/ s[i + 1] # i}
      i == CHOOSE i \in bad : \A j \in bad : i <= j
  IN  IF bad = {} THEN [kind |-> "Ok"]
      ELSE IF s[i + 1] = s[i] THEN [kind |-> "DuplicatedRank", rank |-> s[i + 1]]
      ELSE [kind |-> "NonSequentialRanks", rank |-> i]

validated(s) ==
  IF s = << >> THEN [kind |-> "EmptyNetwork"]
  ELSE IF s[1] # 0 THEN [kind |-> "FirstRankNotZero"]
  ELSE first_fault(s)

build ==
  /\ IsRaw
  /\ outcome' = validated(ByRank(hosts))
  /\ network' = IF validated(ByRank(hosts)).kind = "Ok" THEN ByRank(hosts) ELSE << >>
  /\ UNCHANGED hosts

ConfigNext ==
  \/ \E r \in RankIds : add_node(r)
  \/ \E n \in 0..MaxHosts : truncate(n)
  \/ build

-----------------------------------------------------------------------------
(* Properties.                                                             *)

Given == {hosts[k] : k \in 1..Len(hosts)}

\* build accepts exactly the lists that name each rank 0..n-1 once, in any order, and
\* then get(rank), an index into the slice, finds the node of that rank; the error of a
\* list it refuses names a real fault: a rank that does appear twice, or the first rank
\* that is missing.
BuildsExactlyRankings ==
  /\ ~IsRaw /\ outcome.kind # "taken" =>
       (outcome.kind = "Ok") <=> (hosts # << >> /\ Given = 0..(Len(hosts) - 1))
  /\ outcome.kind = "Ok" =>
       Len(network) = Len(hosts) /\ \A r \in 0..(Len(hosts) - 1) : network[r + 1] = r
  /\ outcome.kind = "EmptyNetwork" => hosts = << >>
  /\ outcome.kind = "FirstRankNotZero" => 0 \notin Given
  /\ outcome.kind = "DuplicatedRank" =>
       Cardinality({k \in 1..Len(hosts) : hosts[k] = outcome.rank}) > 1
  /\ outcome.kind = "NonSequentialRanks" =>
       outcome.rank \notin Given /\ 0..(outcome.rank - 1) \subseteq Given
=============================================================================
