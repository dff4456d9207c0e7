----------------------------- MODULE AlarmRing ------------------------------
(***************************************************************************)
(* The cursors of the play-record ring (monitor/alarm.c) and their copy in *)
(* runstate.db (monitor/runstate.c).                                       *)
(*                                                                         *)
(* MAX_ALARM records are kept in a ring.  head is the oldest record, cur   *)
(* the record being written, snd the next record to be sent to the server. *)
(* playstate is 1 while record cur is open.  The records in [head, cur)    *)
(* are closed.  Each operation is one step here; AlarmLog adds what they   *)
(* do to the records and the steps of the threads.                         *)
(***************************************************************************)
EXTENDS Integers

CONSTANTS
    MaxAlarm,   \* MAX_ALARM
    MaxMade     \* bound: how often the ring advances in a behaviour

ASSUME AlarmRingAssumption == MaxAlarm \in Nat /\ MaxAlarm >= 2 /\ MaxMade \in Nat

VARIABLES
    head, cur, snd, playstate,   \* RunStateG.alarm
    db,        \* contents of runstate.db, NoFile when it cannot be read
    \* Observation of the behaviour:
    made,      \* records closed since the ring was last empty
    sent,      \* how many of these the sender has passed
    lapped     \* the writer has caught up with the sender

ringVars == <<head, cur, snd, playstate>>
obsVars == <<made, sent, lapped>>
ringAll == <<ringVars, db, obsVars>>

Snapshot == [head |-> head, cur |-> cur, snd |-> snd, playstate |-> playstate,
             made |-> made, sent |-> sent, lapped |-> lapped]
Zero == [head |-> 0, cur |-> 0, snd |-> 0, playstate |-> 0,
         made |-> 0, sent |-> 0, lapped |-> FALSE]
NoFile == [head |-> 0, cur |-> 0, snd |-> 0, playstate |-> 2,
           made |-> 0, sent |-> 0, lapped |-> FALSE]

StateType ==
    [head : 0 .. MaxAlarm - 1, cur : 0 .. MaxAlarm - 1, snd : 0 .. MaxAlarm,
     playstate : 0 .. 1, made : Nat, sent : Nat, lapped : BOOLEAN]

\* The cursors index the ring (snd may stand one past its end), in memory and
\* in runstate.db.
RingTypeOK == Snapshot \in StateType /\ db \in StateType \cup {NoFile}

RingInit ==
    /\ head = 0 /\ cur = 0 /\ snd = 0 /\ playstate = 0
    /\ made = 0 /\ sent = 0 /\ lapped = FALSE
    /\ db = NoFile

(***************************************************************************)
(* Cursor arithmetic.                                                      *)
(***************************************************************************)
Wrap(n) == IF n >= MaxAlarm THEN 0 ELSE n

\* Mutant: head does not give way.
NextHeadStays == head

\* cur++ with wrap; head gives way when cur reaches it.
NextCur == Wrap(cur + 1)
NextHead == IF NextCur = head THEN Wrap(head + 1) ELSE head

\* SaveRunState writes RunStateG to runstate.db.
SaveRunState == db' = Snapshot'

(***************************************************************************)
(* Operations.                                                             *)
(***************************************************************************)
\* MakeAlarmG opens a record.  A record left open by a power cut is closed
\* first, by advancing; cursors out of range would be reset to 0.
MakeAlarmG ==
    LET open == playstate = 1
        h == IF open THEN NextHead ELSE head
        c == IF open THEN NextCur ELSE cur
        inRange == h < MaxAlarm /\ c < MaxAlarm
    IN  /\ made < MaxMade
        /\ head' = IF inRange THEN h ELSE 0
        /\ cur' = IF inRange THEN c ELSE 0
        /\ playstate' = 1
        /\ made' = IF open THEN made + 1 ELSE made
        /\ lapped' = (lapped \/ (open /\ c = Wrap(snd)))
        /\ UNCHANGED <<snd, sent>>
        /\ SaveRunState

\* SaveAlarm closes record cur.
SaveAlarm ==
    /\ made < MaxMade
    /\ head' = NextHead
    /\ cur' = NextCur
    /\ playstate' = 0
    /\ made' = made + 1
    /\ lapped' = (lapped \/ NextCur = Wrap(snd))
    /\ UNCHANGED <<snd, sent>>
    /\ SaveRunState

\* Mutant: a sender that is up to date counts as out of the ring.
NormalisedRewinds ==
    LET inRing == IF cur > head
                  THEN IF snd >= cur \/ snd < head THEN head ELSE snd
                  ELSE IF snd > cur /\ snd < head THEN head ELSE snd
    IN  Wrap(inRing)

\* Where ActiveSendAlarm moves snd before it looks at the record: a cursor
\* outside the closed records is reset to the oldest one.
Normalised ==
    LET inRing == IF cur > head
                  THEN IF snd > cur \/ snd < head THEN head ELSE snd
                  ELSE IF snd > cur /\ snd < head THEN head ELSE snd
    IN  Wrap(inRing)

\* Mutant: the sender does not stop at cur.
ActiveSendAlarmPastCur ==
    /\ cur # head
    /\ snd' = Normalised + 1
    /\ sent' = sent + 1
    /\ UNCHANGED <<head, cur, playstate, made, lapped>>
    /\ SaveRunState

\* ActiveSendAlarm with a record to send.
ActiveSendAlarm ==
    /\ cur # head /\ Normalised # cur
    /\ snd' = Normalised + 1
    /\ sent' = sent + 1
    /\ UNCHANGED <<head, cur, playstate, made, lapped>>
    /\ SaveRunState

\* ActiveSendAlarm that returns -1 because snd has reached cur: the cursor may
\* have been normalised, and is not saved.
ActiveSendAlarmNone ==
    /\ cur # head /\ Normalised = cur
    /\ snd' = Normalised
    /\ UNCHANGED <<head, cur, playstate, db, obsVars>>

ClearAlarm ==
    /\ head' = 0 /\ cur' = 0 /\ snd' = 0
    /\ made' = 0 /\ sent' = 0 /\ lapped' = FALSE
    /\ UNCHANGED <<playstate, db>>

Load(s) ==
    /\ head' = s.head /\ cur' = s.cur /\ snd' = s.snd /\ playstate' = s.playstate
    /\ made' = s.made /\ sent' = s.sent /\ lapped' = s.lapped

ClearRunState == Load(Zero) /\ SaveRunState

\* RunStateInit after a power cycle: runstate.db, or zeros without it.
Restart ==
    /\ Load(IF db = NoFile THEN Zero ELSE db)
    /\ UNCHANGED db

\* The power fails while SaveBinFile rewrites runstate.db: the old file is
\* already removed and the new one is not complete, so RunStateInit starts
\* from zeros.
PowerCutInSave ==
    /\ db' = NoFile
    /\ Load(Zero)

RingNext ==
    \/ MakeAlarmG
    \/ SaveAlarm
    \/ ActiveSendAlarm
    \/ ActiveSendAlarmNone
    \/ ClearAlarm
    \/ ClearRunState
    \/ Restart
    \/ PowerCutInSave

RingSpec == RingInit /\ [][RingNext]_ringAll

(***************************************************************************)
(* Properties.                                                             *)
(***************************************************************************)
\* Number of steps from cursor a to cursor b around the ring.
Distance(a, b) == IF a <= b THEN b - a ELSE b - a + MaxAlarm

Kept(n) == IF n < MaxAlarm THEN n ELSE MaxAlarm - 1

\* The ring always holds the last MaxAlarm - 1 closed records, or all of them
\* when there were fewer: cur never runs into head from behind (which would
\* make a full ring look empty to ActiveSendAlarm), also after a power cycle.
RetainsNewest == Distance(head, cur) = Kept(made)

\* As long as the writer has not caught up with the sender, the distance from
\* snd to cur is exactly the number of records not sent yet: ActiveSendAlarm
\* neither skips a record nor sends one twice, whatever is appended, wrapped,
\* reloaded or normalised in between.
PendingExact ==
    ~lapped => made - sent \in 0 .. MaxAlarm - 1 /\ Distance(Wrap(snd), cur) = made - sent

\* The record ActiveSendAlarm sends is one of the closed records in [head, cur),
\* even after the writer has lapped the sender.
SentIsRetained ==
    [][ActiveSendAlarm => Distance(head, Normalised) < Distance(head, cur)]_ringAll
=============================================================================
