----------------------------- MODULE AdaptiveN -----------------------------
(***************************************************************************)
(* lockstep/adaptive.go and the RTTReport case of handleMsg: the input     *)
(* delay N, in ticks, derived from the round-trip times that the players   *)
(* report.                                                                 *)
(***************************************************************************)
EXTENDS Integers

CONSTANTS
  Players,
  RTTs,          \* reported round-trip times, in milliseconds
  TickInterval,  \* milliseconds per tick: 1000 / TickRate
  InitialN, MinN, MaxN

NoSample == -1

VARIABLES
  n,         \* the current N
  samples,   \* rttSamples: the latest sample of each player, or NoSample
  reports    \* the latest three round-trip times of each player (history)

adaptiveVars == <<n, samples, reports>>

Triple == [1..3 -> RTTs]

\* One compare-exchange of handleMsg.
Exchange(s, i, j) ==
  IF s[i] > s[j] THEN [s EXCEPT ![i] = s[j], ![j] = s[i]] ELSE s

Median(s) == Exchange(Exchange(Exchange(s, 1, 2), 2, 3), 1, 2)[2]

HasSample == \E p \in Players : samples[p] # NoSample
IsMaxRTT(m) == /\ m \in {samples[p] : p \in Players} \cup {0}
               /\ \A p \in Players : samples[p] <= m

Clamped(x) == IF x < MinN THEN MinN ELSE IF x > MaxN THEN MaxN ELSE x

\* Mutant: no safety margin.
NeededNoMargin(m) == Clamped(m \div TickInterval + 1)

Needed(m) == Clamped(m \div TickInterval + 2)
-----------------------------------------------------------------------------
Init ==
  /\ n = InitialN
  /\ samples = [p \in Players |-> NoSample]
  /\ reports = [p \in Players |-> [i \in 1..3 |-> NoSample]]

ReportRTT(p, s) ==
  /\ samples' = [samples EXCEPT ![p] = Median(s)]
  /\ reports' = [reports EXCEPT ![p] = s]
  /\ UNCHANGED n

Recalculate ==
  /\ \/ ~HasSample /\ UNCHANGED n
     \/ HasSample /\ \E m \in RTTs \cup {0} : IsMaxRTT(m) /\ n' = Needed(m)
  /\ UNCHANGED <<samples, reports>>

Next ==
  \/ \E p \in Players, s \in Triple : ReportRTT(p, s)
  \/ Recalculate

Spec == Init /\ [][Next]_adaptiveVars
-----------------------------------------------------------------------------
TypeOK ==
  /\ n \in {InitialN} \cup MinN..MaxN
  /\ samples \in [Players -> RTTs \cup {NoSample}]
  /\ reports \in [Players -> [1..3 -> RTTs \cup {NoSample}]]

\* The sample kept of a report is its median: with the three values in some
\* order, the sample is the one in the middle, whatever their repetitions.
IsMedian(m, s) ==
  \E i, j, k \in 1..3 :
    {i, j, k} = 1..3 /\ s[i] <= m /\ s[j] = m /\ m <= s[k]
SampleIsMedian == \A p \in Players : IsMedian(samples[p], reports[p])

\* A new N covers the slowest player's round trip and a tick of margin,
\* unless it is capped at MaxN; and it is the least such N, unless MinN.
DelayFits ==
  [][\A m \in RTTs \cup {0} :
       HasSample /\ IsMaxRTT(m) /\ n' # n =>
         /\ n' = MaxN \/ n' * TickInterval > m + TickInterval
         /\ n' = MinN \/ (n' - 2) * TickInterval <= m]_adaptiveVars
=============================================================================
