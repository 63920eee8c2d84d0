------------------------------ MODULE SlotPool ------------------------------
(***************************************************************************)
(* What the download queue promises to those who wait in it (downloads.js: *)
(* activeAborts, queuedIds and maxConcurrent()): nobody is served beyond   *)
(* the limit, nobody joins the line while there is room, the line is       *)
(* served from its head with nobody passed over, and whenever someone      *)
(* leaves a place, it does not stay empty while others wait.               *)
(***************************************************************************)
EXTENDS Integers, Sequences, FiniteSets

CONSTANTS Clients, MaxLimit

VARIABLES
  busy,     \* who is being served
  line,     \* who waits, first come first
  limit,    \* how many may be served
  excused   \* who may lose a turn; the environment's choice

Waiting == {line[i] : i \in 1..Len(line)}

Init == busy = {} /\ line = <<>> /\ limit \in 1..MaxLimit

(* Ways to line up some of the people of S, each at most once. *)
Lines(S) ==
  {s \in UNION {[1..n -> S] : n \in 0..Cardinality(Clients)} :
     \A i, j \in DOMAIN s : s[i] = s[j] => i = j}

(* Newcomers ask to be served: some are, within the limit, and the others join *)
(* the end of the line, provided that the limit has been reached.              *)
Ask ==
  \E go \in SUBSET (Clients \ (busy \cup Waiting)) :
    \E rest \in Lines(Clients \ (busy \cup Waiting \cup go)) :
      /\ busy' = busy \cup go
      /\ line' = line \o rest
      /\ go # {} => Cardinality(busy') <= limit
      /\ rest # <<>> => Cardinality(busy') >= limit
      /\ limit' = limit

(* Someone gives up waiting. *)
GiveUp ==
  \E i \in 1..Len(line) :
    /\ line' = SubSeq(line, 1, i - 1) \o SubSeq(line, i + 1, Len(line))
    /\ UNCHANGED <<busy, limit>>

(* The first k in the line are called, after somebody has left or at any time. *)
Serve ==
  \E gone \in {{}} \cup {{c} : c \in busy}, k \in 0..Len(line) :
    \E go \in SUBSET {line[i] : i \in 1..k} :
      /\ busy' = (busy \ gone) \cup go
      /\ line' = SubSeq(line, k + 1, Len(line))
      /\ \A i \in 1..k : line[i] \in go \cup excused
      /\ go # {} => Cardinality(busy') <= limit
      /\ line' # <<>> => Cardinality(busy') >= limit
      /\ limit' = limit

(* The limit is changed: that alone serves nobody and stops nobody. *)
SetLimit == limit' \in 1..MaxLimit /\ UNCHANGED <<busy, line>>

(* Everyone is sent away. *)
Close == busy' = {} /\ line' = <<>> /\ limit' = limit

Next == Ask \/ GiveUp \/ Serve \/ SetLimit \/ Close

Spec == Init /\ [][Next]_<<busy, line, limit>>
=============================================================================
