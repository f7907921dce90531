----------------------------- MODULE Measurement -----------------------------
(***************************************************************************)
(* The two motors that only measure: motor 4 (src/motor_4_ofi), driven by  *)
(* book events, and motor 5 (src/motor_5_spillover), driven by a timer.    *)
(* Both open an experiment on a signal, read the mid twice later (T+30 and *)
(* T+60, T+60 and T+120) and then write a row, or drop the experiment when *)
(* the book stayed dead for the whole grace.                               *)
(*                                                                         *)
(* They share nothing but the books, which neither writes: a behaviour has *)
(* one of them enabled.  Time is relative: an experiment has an age, a     *)
(* cooldown has ticks left, a mid of the window has the ticks since it was *)
(* read.  Whether the flow of motor 4 is anomalous (its z-score) is left   *)
(* open, once its baseline is long enough.                                 *)
(***************************************************************************)
EXTENDS Integers, Sequences, FiniteSets, SequencesExt

CONSTANTS
  Legs,              \* the legs of the group, in its order: a sequence of tokens
  Mids,              \* values of a mid
  First, Second, Grace,   \* MEASURE_30/60/GRACE, MEASURE_60/120/GRACE
  Cooldown,          \* MOTOR_4_COOLDOWN_SEC
  Window,            \* MOTOR_5_TRIGGER_WINDOW_SEC
  Move,              \* MOTOR_5_TRIGGER_MOVE_PP
  MinBaseline,       \* MOTOR_4_MIN_BASELINE
  MaxPending         \* MAX_PENDING

Tokens == ToSet(Legs)
NoMid  == -1

ASSUME MeasurementAssumption ==
  /\ Legs \in Seq(Tokens)
  /\ Mids \subseteq Nat
  /\ {First, Second, Grace, Window, Move, MinBaseline, MaxPending} \subseteq Nat \ {0}
  /\ Cooldown \in Nat
  /\ First =< Second
  /\ Second =< Grace

VARIABLES
  enabled,   \* the motor that is enabled, 4 or 5
  groups,    \* capture is there and has neg-risk groups
  mid,       \* _mid_of(): mid of each healthy book, NoMid otherwise
  seen,      \* motor 4: tops of a token seen, up to the first baseline that is long enough
  mids,      \* motor 5: window of mids, mids[t][a] read a ticks ago, NoMid if none was
  cooling,   \* ticks until cooldown_until
  pending,   \* _pending
  ticked,    \* motor 5 has run its tick of this instant
  written,   \* history: the rows of the last step that wrote any
  last       \* history: ticks since the last trigger of a leg, at most Window + 1

measurement == <<enabled, groups, mid, seen, mids, cooling, pending, ticked, written, last>>

(* `first` is the age at which the first mid was read, NoMid before. *)
Pending == [token : Tokens, age : 0 .. Grace, first : {NoMid} \cup (0 .. Grace)]

(* "Nada sin tope": the experiments of both motors stay within MAX_PENDING *)
(* however many signals come (shadow.py:90, engine.py:133).                *)
TypeOK ==
  /\ enabled \in {4, 5}
  /\ groups \in BOOLEAN
  /\ mid \in [Tokens -> Mids \cup {NoMid}]
  /\ seen \in [Tokens -> 0 .. MinBaseline + 1]
  /\ mids \in [Tokens -> [0 .. Window -> Mids \cup {NoMid}]]
  /\ cooling \in [Tokens -> Nat]
  /\ pending \in Seq(Pending)
  /\ Len(pending) =< MaxPending
  /\ ticked \in BOOLEAN
  /\ written \in SUBSET [first : 0 .. Grace, second : 0 .. Grace]
  /\ last \in [Tokens -> 0 .. Window + 1]

MeasurementInit ==
  /\ enabled \in {4, 5}
  /\ groups = FALSE
  /\ mid = [t \in Tokens |-> NoMid]
  /\ seen = [t \in Tokens |-> 0]
  /\ mids = [t \in Tokens |-> [a \in 0 .. Window |-> NoMid]]
  /\ cooling = [t \in Tokens |-> 0]
  /\ pending = << >>
  /\ ticked = FALSE
  /\ written = {}
  /\ last = [t \in Tokens |-> Window + 1]

-----------------------------------------------------------------------------
(* Maturing: _advance_measurements() and _advance(), with the mids m.      *)

FirstRead_AtOnce(p, m) ==
  IF p.first = NoMid /\ m[p.token] # NoMid THEN [p EXCEPT !.first = p.age] ELSE p

FirstRead(p, m) ==
  IF p.first = NoMid /\ p.age >= First /\ m[p.token] # NoMid
  THEN [p EXCEPT !.first = p.age] ELSE p

Complete(p, m) == p.age >= Second /\ m[p.token] # NoMid
Expired(p, m)  == p.age >= Grace /\ m[p.token] = NoMid

(* What a list holds at the positions S, in its order. *)
Nth(S, k)   == CHOOSE i \in S : Cardinality({j \in S : j < i}) = k - 1
At(list, S) == [k \in 1 .. Cardinality(S) |-> list[Nth(S, k)]]

StillPending(queue, m) ==
  LET kept == {i \in DOMAIN queue : ~Complete(queue[i], m) /\ ~Expired(queue[i], m)}
  IN  [k \in 1 .. Cardinality(kept) |-> FirstRead(At(queue, kept)[k], m)]

Row(p) == [first |-> p.first, second |-> p.age]

(* A row whose insert fails is counted as measured all the same. *)
Rows(queue, m) == {Row(FirstRead(p, m)) : p \in {q \in ToSet(queue) : Complete(q, m)}}

Advances(queue, m) ==
  /\ pending' = StillPending(queue, m)
  /\ written' = IF Rows(queue, m) = {} THEN written ELSE Rows(queue, m)

New(t) == [token |-> t, age |-> 0, first |-> NoMid]

(* What does not fit is dropped. *)
Enqueued_Unchecked(queue, new) == queue \o new

Enqueued(queue, new) ==
  LET all == queue \o new
  IN  IF Len(all) =< MaxPending THEN all ELSE SubSeq(all, 1, MaxPending)

-----------------------------------------------------------------------------
(* Motor 4: OfiShadow.observe_top(), called with the top that an event of  *)
(* token t left, at mid m.                                                 *)

(* The first top is no transition; the cooldown starts with the signal,    *)
(* also when the signal is dropped because the book has no mid.            *)
Detects(t, anomalous) ==
  /\ seen[t] >= MinBaseline
  /\ cooling[t] = 0
  /\ anomalous

ObserveTop(t, m, anomalous) ==
  LET now   == [mid EXCEPT ![t] = m]
      after == StillPending(pending, now)
  IN  /\ enabled = 4
      /\ mid' = now
      /\ seen' = [seen EXCEPT ![t] = IF @ =< MinBaseline THEN @ + 1 ELSE @]
      /\ cooling' = IF Detects(t, anomalous) THEN [cooling EXCEPT ![t] = Cooldown] ELSE cooling
      /\ pending' = IF Detects(t, anomalous) /\ m # NoMid
                    THEN Enqueued(after, <<New(t)>>) ELSE after
      /\ written' = IF Rows(pending, now) = {} THEN written ELSE Rows(pending, now)
      /\ UNCHANGED <<enabled, groups, mids, ticked, last>>

-----------------------------------------------------------------------------
(* Motor 5: SpilloverEngine.tick().                                        *)

Oldest(t) ==
  LET known == {a \in 0 .. Window : mids[t][a] # NoMid}
  IN  IF known = {} THEN NoMid ELSE CHOOSE a \in known : \A b \in known : b =< a

Distance(x, y) == IF x > y THEN x - y ELSE y - x

(* detect_jump(): from the oldest mid of the window to the one of now. *)
Jumps(t) ==
  /\ mid[t] # NoMid
  /\ Oldest(t) # NoMid
  /\ cooling[t] = 0
  /\ Distance(mid[t], mids[t][Oldest(t)]) >= Move

CooldownAfterJump_Short == Window - 1
CooldownAfterJump == Window

Siblings(t) == At(Legs, {i \in DOMAIN Legs : Legs[i] # t /\ mid[Legs[i]] # NoMid})

Opened ==
  LET of(t) == IF Jumps(t) THEN [i \in 1 .. Len(Siblings(t)) |-> New(Siblings(t)[i])] ELSE << >>
  IN  FlattenSeq([i \in 1 .. Len(Legs) |-> of(Legs[i])])

(* Reads the window, then adds the mid of now to it. *)
Feels ==
  /\ mids' = [t \in Tokens |-> [mids[t] EXCEPT ![0] = mid[t]]]
  /\ cooling' = [t \in Tokens |-> IF Jumps(t) THEN CooldownAfterJump ELSE cooling[t]]
  /\ last' = [t \in Tokens |-> IF Jumps(t) THEN 0 ELSE last[t]]
  /\ Advances(Enqueued(pending, Opened), mid)

Tick5_OnlyWithGroups ==
  /\ enabled = 5
  /\ ~ticked
  /\ ticked' = TRUE
  /\ IF groups THEN Feels ELSE UNCHANGED <<mids, cooling, last, pending, written>>
  /\ UNCHANGED <<enabled, groups, mid, seen>>

(* Without groups nothing is detected, but what is pending still matures.  *)
Tick5 ==
  /\ enabled = 5
  /\ ~ticked
  /\ ticked' = TRUE
  /\ \/ groups /\ Feels
     \/ ~groups /\ Advances(pending, mid) /\ UNCHANGED <<mids, cooling, last>>
  /\ UNCHANGED <<enabled, groups, mid, seen>>

(* Books and groups change while motor 5 sleeps. *)
BooksMove(t, m) ==
  /\ enabled = 5
  /\ ~ticked
  /\ m # mid[t]
  /\ mid' = [mid EXCEPT ![t] = m]
  /\ UNCHANGED <<enabled, groups, seen, mids, cooling, pending, ticked, written, last>>

(* A new capture starts without groups until its discovery has found some. *)
GroupsMove ==
  /\ enabled = 5
  /\ ~ticked
  /\ groups' = ~groups
  /\ UNCHANGED <<enabled, mid, seen, mids, cooling, pending, ticked, written, last>>

-----------------------------------------------------------------------------
(* Time.  Motor 5 ticks once per unit; motor 4 has no clock of its own.    *)

TimePasses ==
  /\ enabled = 5 => ticked
  /\ ticked' = FALSE
  /\ pending' = [i \in DOMAIN pending |->
                   [pending[i] EXCEPT !.age = IF @ < Grace THEN @ + 1 ELSE @]]
  /\ cooling' = [t \in Tokens |-> IF cooling[t] > 0 THEN cooling[t] - 1 ELSE 0]
  /\ mids' = [t \in Tokens |-> [a \in 0 .. Window |-> IF a = 0 THEN NoMid ELSE mids[t][a - 1]]]
  /\ last' = [t \in Tokens |-> IF last[t] =< Window THEN last[t] + 1 ELSE last[t]]
  /\ UNCHANGED <<enabled, groups, mid, seen, written>>

MeasurementNext ==
  \/ \E t \in Tokens, m \in Mids \cup {NoMid}, anomalous \in BOOLEAN : ObserveTop(t, m, anomalous)
  \/ Tick5
  \/ \E t \in Tokens, m \in Mids \cup {NoMid} : BooksMove(t, m)
  \/ GroupsMove
  \/ TimePasses

MeasurementSpec == MeasurementInit /\ [][MeasurementNext]_measurement

-----------------------------------------------------------------------------
(* A row that is written was read twice, each time no earlier than the    *)
(* delay it is filed under and in that order (shadow.py:101-120,           *)
(* engine.py:154-174): the gates of both motors compare these moves.       *)
RowsAreTimely ==
  \A r \in written : First =< r.first /\ r.first =< r.second /\ Second =< r.second

(* Slots come back: after a tick of motor 5 no experiment is older than    *)
(* the grace, also when the capture, the groups or the book are gone       *)
(* (engine.py:105, 154-174); otherwise dead books fill MAX_PENDING.        *)
SlotsAreFreed ==
  enabled = 5 /\ ticked => \A i \in DOMAIN pending : pending[i].age < Grace

(* "UN trigger por episodio": the mid a trigger of a leg is measured from  *)
(* was not read before the leg's previous trigger, so one jump never       *)
(* triggers twice (engine.py:75-93: window and cooldown agree).            *)
OneTriggerPerEpisode ==
  [][\A t \in Tokens : last'[t] = 0 /\ last[t] # 0 => Oldest(t) =< last[t]]_measurement
=============================================================================
