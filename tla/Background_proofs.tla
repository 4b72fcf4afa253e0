-------------------------- MODULE Background_proofs --------------------------
(***************************************************************************)
(* What holds of the two components that work in the background of the     *)
(* windows: the meter of the connection, for every number of channels,     *)
(* bytes and addresses and every width of the counters, and the updater,   *)
(* for every number of checks, updates, callbacks and boxes.  They have no *)
(* state in common.                                                        *)
(*                                                                         *)
(* That a speed is possible is not inductive: the strengthening says that, *)
(* as long as no channel was closed, the counter the check will read has   *)
(* not gone back behind the number it last read, and has gained no more    *)
(* than what was received since.  The difference then cannot wrap.         *)
(*                                                                         *)
(* Of the updater: a password that is kept belongs to an update that will  *)
(* forget it, a flag that is up to a task that will lower it, and a button *)
(* that disagrees with the flag to a callback or a box that will set it.   *)
(***************************************************************************)
EXTENDS NetSpeedometer, AppUpdater, SequenceTheorems, TLAPS

-----------------------------------------------------------------------------
(* The meter.                                                              *)

\* The next difference does not wrap, and is at most what was received.
CounterAhead ==
    dropped \/ (readBytes <= SpiceReadBytes /\ SpiceReadBytes - readBytes <= arrived)

\* The meter is freed when its thread has ended.
ThreadWaitedFor == meter = "gone" => thread = "ended"

\* The types of the channels, and of the other variables.
ChannelsTyped == channels \in Seq(Bytes) /\ Len(channels) <= MaxChannels

OthersTyped ==
    /\ meter \in {"on", "closing", "gone"}
    /\ active \in BOOLEAN
    /\ ~active => channels = <<>>
    /\ readBytes \in Bytes
    /\ speed \in Nat
    /\ vmIp \in Addresses \cup {NoAddress}
    /\ thread \in {"loop", "ping", "parse", "sleep", "ended"}
    /\ pinged \in Addresses \cup {NoAddress}
    /\ quality \in Addresses \cup {NoAddress}
    /\ arrived \in Nat /\ dropped \in BOOLEAN
    /\ sent \in [arrived : Nat, dropped : BOOLEAN]

IInv == ChannelsTyped /\ OthersTyped /\ CounterAhead /\ SpeedIsPossible /\ ThreadWaitedFor

-----------------------------------------------------------------------------
\* get_speed: a difference that does not wrap is divided, and nothing is gained.
LEMMA SpeedBounded ==
    ASSUME NEW cur \in Bytes, NEW prev \in Bytes
    PROVE  /\ get_speed(cur, prev) \in Nat
           /\ prev <= cur => get_speed(cur, prev) * CHECK_TIMEOUT <= cur - prev
  <1>1. /\ MaxBytes \in Nat /\ Modulus \in Nat /\ Modulus > MaxBytes
        /\ cur \in Nat /\ prev \in Nat /\ cur <= MaxBytes /\ prev <= MaxBytes
    BY MaxBytesAssumption, ModulusAssumption DEF Bytes
  <1> DEFINE rest == (cur - prev) % Modulus
  <1>2. rest \in Nat
    BY <1>1
  <1>3. prev <= cur => rest = cur - prev
    BY <1>1
  <1>4. rest \div 5 \in Nat /\ (rest \div 5) * 5 <= rest
    BY <1>2
  <1> HIDE DEF rest
  <1>5. get_speed(cur, prev) = rest \div 5
    BY DEF get_speed, CHECK_TIMEOUT, rest
  <1> QED
    BY <1>1, <1>2, <1>3, <1>4, <1>5 DEF CHECK_TIMEOUT

\* The counter the check reads is one of a channel.
LEMMA ReadTyped ==
    ASSUME ChannelsTyped
    PROVE  SpiceReadBytes \in Bytes
  <1>1. 0 \in Bytes
    BY MaxBytesAssumption DEF Bytes
  <1>2. ASSUME channels # <<>>
        PROVE  channels[Len(channels)] \in Bytes
    BY <1>2 DEF ChannelsTyped
  <1> QED
    BY <1>1, <1>2 DEF SpiceReadBytes

\* A channel is taken out of a session.
LEMMA RemovedTyped ==
    ASSUME NEW s \in Seq(Bytes), NEW i \in DOMAIN s
    PROVE  RemoveAt(s, i) \in Seq(Bytes) /\ Len(RemoveAt(s, i)) = Len(s) - 1
  <1> DEFINE before == SubSeq(s, 1, i - 1)
             after  == SubSeq(s, i + 1, Len(s))
  <1>1. i \in 1 .. Len(s) /\ Len(s) \in Nat
    OBVIOUS
  <1>2. before \in Seq(Bytes) /\ Len(before) = i - 1
    <2>1. \A j \in 1 .. i - 1 : s[j] \in Bytes
      BY <1>1
    <2> QED
      BY <1>1, <2>1, SubSeqProperties
  <1>3. after \in Seq(Bytes) /\ Len(after) = Len(s) - i
    <2>1. \A j \in i + 1 .. Len(s) : s[j] \in Bytes
      BY <1>1
    <2> QED
      BY <1>1, <2>1, SubSeqProperties
  <1>4. RemoveAt(s, i) = before \o after
    BY DEF RemoveAt
  <1> HIDE DEF before, after
  <1>5. before \o after \in Seq(Bytes) /\ Len(before \o after) = Len(before) + Len(after)
    BY <1>2, <1>3, ConcatProperties
  <1>6. Len(before) + Len(after) = Len(s) - 1
    BY <1>1, <1>2, <1>3
  <1> QED
    BY <1>4, <1>5, <1>6, Zenon

\* A session begins and ends without channels.
LEMMA NoChannels == <<>> \in Seq(Bytes) /\ Len(<<>>) <= MaxChannels
  <1>1. <<>> \in Seq(Bytes) /\ Len(<<>>) = 0
    BY EmptySeq
  <1>2. 0 <= MaxChannels
    BY ChannelsAssumption
  <1> QED
    BY <1>1, <1>2, Zenon

\* What a check records of the bytes received.
LEMMA SentTyped ==
    ASSUME NEW bytes \in Nat, NEW closed \in BOOLEAN
    PROVE  [arrived |-> bytes, dropped |-> closed] \in [arrived : Nat, dropped : BOOLEAN]
  OBVIOUS

-----------------------------------------------------------------------------
THEOREM InitEstablishes == Init => IInv
  <1> SUFFICES ASSUME Init
               PROVE  IInv
    OBVIOUS
  <1>1. ChannelsTyped
    BY NoChannels, Zenon DEF Init, ChannelsTyped
  <1>2. OthersTyped
    <2>1. sent \in [arrived : Nat, dropped : BOOLEAN]
      BY SentTyped DEF Init
    <2>2. 0 \in Bytes
      BY MaxBytesAssumption DEF Bytes
    <2> QED
      BY <2>1, <2>2 DEF Init, OthersTyped
  <1>3. SpiceReadBytes = 0
    BY DEF Init, SpiceReadBytes
  <1> QED
    BY <1>1, <1>2, <1>3
    DEF Init, IInv, CounterAhead, SpeedIsPossible, ThreadWaitedFor, CHECK_TIMEOUT

LEMMA SessionStep ==
    ASSUME IInv, Session
    PROVE  IInv'
  <1> USE DEF IInv
  <1>1. CASE instant_start
    <2>1. ChannelsTyped' /\ SpiceReadBytes' = SpiceReadBytes
      BY <1>1 DEF instant_start, ChannelsTyped, SpiceReadBytes
    <2>2. OthersTyped'
      BY <1>1 DEF instant_start, OthersTyped, meterVars, pingVars
    <2> QED
      BY <1>1, <2>1, <2>2
      DEF instant_start, CounterAhead, SpeedIsPossible, ThreadWaitedFor, meterVars,
          pingVars, Looping
  <1>2. CASE deactivated
    <2>1. ChannelsTyped'
      <3>1. channels' = <<>>
        BY <1>2 DEF deactivated
      <3> QED
        BY <3>1, NoChannels, Zenon DEF ChannelsTyped
    <2>2. OthersTyped'
      BY <1>2 DEF deactivated, OthersTyped, meterVars, pingVars
    <2>3. CounterAhead'
      <3>1. CASE channels = <<>>
        BY <1>2, <3>1 DEF deactivated, CounterAhead, SpiceReadBytes, meterVars, OthersTyped
      <3>2. CASE channels # <<>>
        BY <1>2, <3>2 DEF deactivated, CounterAhead, OthersTyped
      <3> QED
        BY <3>1, <3>2
    <2> QED
      BY <1>2, <2>1, <2>2, <2>3
      DEF deactivated, SpeedIsPossible, ThreadWaitedFor, meterVars, pingVars, Looping
  <1>3. CASE channel_new
    <2> DEFINE new == <<0>>
               longer == new \o channels
    <2>1. new \in Seq(Bytes) /\ Len(new) = 1 /\ new[1] = 0
      BY MaxBytesAssumption DEF Bytes
    <2>2. channels \in Seq(Bytes) /\ Len(channels) \in Nat
      BY DEF ChannelsTyped
    <2> HIDE DEF new
    <2>3. /\ longer \in Seq(Bytes) /\ Len(longer) = Len(new) + Len(channels)
          /\ \A i \in 1 .. Len(new) + Len(channels) :
                longer[i] = IF i <= Len(new) THEN new[i] ELSE channels[i - Len(new)]
      BY <2>1, <2>2, ConcatProperties
    <2>4. channels' = longer
      BY <1>3 DEF channel_new, new
    <2> HIDE DEF longer
    <2>5. longer # <<>> /\ Len(longer) = 1 + Len(channels)
      BY <2>1, <2>2, <2>3
    <2>6. ChannelsTyped'
      <3>1. Len(longer) <= MaxChannels
        BY <1>3, <2>2, <2>5, ChannelsAssumption DEF channel_new
      <3> QED
        BY <2>3, <2>4, <3>1 DEF ChannelsTyped
    <2>7. OthersTyped'
      BY <1>3 DEF channel_new, OthersTyped, meterVars, pingVars
    <2>8. SpiceReadBytes' = SpiceReadBytes
      <3>1. SpiceReadBytes' = longer[Len(longer)]
        BY <2>4, <2>5 DEF SpiceReadBytes
      <3>2. CASE channels = <<>>
        <4>1. Len(longer) = 1 /\ longer[1] = new[1]
          BY <2>1, <2>3, <2>5, <3>2
        <4> QED
          BY <2>1, <3>1, <3>2, <4>1 DEF SpiceReadBytes
      <3>3. CASE channels # <<>>
        <4>1. Len(channels) >= 1
          BY <2>2, <3>3
        <4>2. longer[Len(longer)] = channels[Len(channels)]
          BY <2>1, <2>2, <2>3, <2>5, <4>1
        <4> QED
          BY <3>1, <3>3, <4>2 DEF SpiceReadBytes
      <3> QED
        BY <3>2, <3>3
    <2> QED
      BY <1>3, <2>6, <2>7, <2>8
      DEF channel_new, CounterAhead, SpeedIsPossible, ThreadWaitedFor, meterVars, pingVars,
          Looping
  <1>4. ASSUME NEW i \in 1 .. MaxChannels, channel_closed(i)
        PROVE  IInv'
    <2>1. channels \in Seq(Bytes) /\ i \in DOMAIN channels /\ Len(channels) <= MaxChannels
      BY <1>4 DEF channel_closed, ChannelsTyped
    <2>2. /\ channels' \in Seq(Bytes) /\ Len(channels') = Len(channels) - 1
          /\ Len(channels) \in Nat
      BY <1>4, <2>1, RemovedTyped DEF channel_closed
    <2>3. Len(channels') <= MaxChannels
      BY <2>1, <2>2, ChannelsAssumption
    <2>4. ChannelsTyped'
      BY <2>2, <2>3 DEF ChannelsTyped
    <2>5. OthersTyped'
      BY <1>4 DEF channel_closed, OthersTyped, meterVars, pingVars
    <2> QED
      BY <1>4, <2>4, <2>5
      DEF channel_closed, CounterAhead, SpeedIsPossible, ThreadWaitedFor, meterVars,
          pingVars, Looping
  <1>5. ASSUME NEW i \in 1 .. MaxChannels, NEW n \in Chunks, bytes_received(i, n)
        PROVE  IInv'
    <2> DEFINE now == [channels EXCEPT ![i] = channels[i] + n]
    <2>1. /\ n \in Nat /\ channels \in Seq(Bytes) /\ i \in DOMAIN channels
          /\ Len(channels) \in Nat /\ i \in 1 .. Len(channels)
      BY <1>5, ChunksAssumption DEF bytes_received, ChannelsTyped
    <2>2. channels[i] \in Nat /\ channels[i] + n \in Bytes /\ arrived \in Nat
      BY <1>5, <2>1, MaxBytesAssumption DEF bytes_received, OthersTyped, Bytes
    <2>3. channels' = now /\ arrived' = arrived + n
      BY <1>5 DEF bytes_received
    <2>4. /\ now \in Seq(Bytes) /\ Len(now) = Len(channels)
          /\ \A j \in 1 .. Len(channels) :
                now[j] = IF j = i THEN channels[i] + n ELSE channels[j]
      BY <2>1, <2>2
    <2> HIDE DEF now
    <2>5. ChannelsTyped'
      BY <2>3, <2>4 DEF ChannelsTyped
    <2>6. OthersTyped'
      BY <1>5, <2>1, <2>2, <2>3 DEF bytes_received, OthersTyped, meterVars, pingVars
    <2>7. SpiceReadBytes' = SpiceReadBytes \/ SpiceReadBytes' = SpiceReadBytes + n
      <3>1. channels # <<>> /\ now # <<>> /\ Len(channels) \in 1 .. Len(channels)
        BY <2>1, <2>4
      <3>2. SpiceReadBytes = channels[Len(channels)]
        BY <3>1 DEF SpiceReadBytes
      <3>3. SpiceReadBytes' = now[Len(channels)]
        BY <2>3, <2>4, <3>1 DEF SpiceReadBytes
      <3> QED
        BY <2>4, <3>1, <3>2, <3>3
    <2>8. SpiceReadBytes \in Nat /\ readBytes \in Nat
      BY ReadTyped, MaxBytesAssumption DEF OthersTyped, Bytes
    <2>9. CounterAhead'
      <3>1. dropped' = dropped /\ readBytes' = readBytes
        BY <1>5 DEF bytes_received, meterVars
      <3> QED
        BY <2>1, <2>2, <2>3, <2>7, <2>8, <3>1 DEF CounterAhead
    <2> QED
      BY <1>5, <2>5, <2>6, <2>9
      DEF bytes_received, SpeedIsPossible, ThreadWaitedFor, meterVars, pingVars, Looping
  <1> QED
    BY <1>1, <1>2, <1>3, <1>4, <1>5 DEF Session

LEMMA CheckStep ==
    ASSUME IInv, Check
    PROVE  IInv'
  <1> USE DEF IInv
  <1>1. ChannelsTyped' /\ SpiceReadBytes' = SpiceReadBytes
    BY DEF Check, check_idle, check_stats, ChannelsTyped, SpiceReadBytes
  <1>2. SpiceReadBytes \in Bytes /\ readBytes \in Bytes
    BY ReadTyped DEF OthersTyped
  <1>3. SpiceReadBytes \in Nat /\ readBytes \in Nat /\ arrived \in Nat
    BY <1>2, MaxBytesAssumption DEF OthersTyped, Bytes
  <1>4. CASE check_idle
    <2>1. SpiceReadBytes = 0
      BY <1>4 DEF check_idle, OthersTyped, SpiceReadBytes
    <2>2. OthersTyped'
      <3>1. 0 \in Bytes
        BY MaxBytesAssumption DEF Bytes
      <3> QED
        BY <1>4, <3>1 DEF check_idle, OthersTyped, pingVars
    <2>3. CounterAhead'
      BY <1>1, <1>4, <2>1 DEF check_idle, CounterAhead
    <2> QED
      BY <1>1, <1>4, <2>2, <2>3 DEF check_idle, SpeedIsPossible, ThreadWaitedFor, Looping
  <1>5. CASE check_stats
    <2>1. /\ get_speed(SpiceReadBytes, readBytes) \in Nat
          /\ readBytes <= SpiceReadBytes =>
                get_speed(SpiceReadBytes, readBytes) * CHECK_TIMEOUT
                    <= SpiceReadBytes - readBytes
      BY <1>2, SpeedBounded
    <2>2. /\ speed' = get_speed(SpiceReadBytes, readBytes)
          /\ readBytes' = SpiceReadBytes
          /\ sent' = [arrived |-> arrived, dropped |-> dropped]
      BY <1>5 DEF check_stats
    <2>3. OthersTyped'
      <3>1. sent' \in [arrived : Nat, dropped : BOOLEAN]
        BY <2>2, SentTyped DEF OthersTyped
      <3>2. speed' \in Nat /\ readBytes' \in Bytes
        BY <1>2, <2>1, <2>2
      <3> QED
        BY <1>5, <3>1, <3>2 DEF check_stats, OthersTyped, pingVars
    <2>4. CounterAhead'
      BY <1>1, <1>3, <1>5, <2>2 DEF check_stats, CounterAhead
    <2>5. SpeedIsPossible'
      <3>1. CASE dropped
        BY <2>2, <3>1 DEF SpeedIsPossible
      <3>2. CASE ~dropped
        <4>1. get_speed(SpiceReadBytes, readBytes) * CHECK_TIMEOUT <= arrived
          BY <1>3, <2>1, <3>2 DEF CounterAhead, CHECK_TIMEOUT
        <4> QED
          BY <2>2, <4>1 DEF SpeedIsPossible, CHECK_TIMEOUT
      <3> QED
        BY <3>1, <3>2
    <2> QED
      BY <1>1, <1>5, <2>3, <2>4, <2>5 DEF check_stats, ThreadWaitedFor, Looping
  <1> QED
    BY <1>4, <1>5 DEF Check

\* The thread and the end of the meter leave the counters alone.
LEMMA PingStep ==
    ASSUME IInv, Ping \/ finalize \/ thread_joined
    PROVE  IInv'
  <1> USE DEF IInv
  <1>1. UNCHANGED <<vmIp, meterVars, sessionVars>>
    BY DEF Ping, ping_starts, ping_job_ends, ping_ends, ping_parsed, sleep_ends, finalize,
           thread_joined, threadFrame, finalizeFrame
  <1>2. ChannelsTyped' /\ CounterAhead' /\ SpeedIsPossible'
    BY <1>1
    DEF ChannelsTyped, CounterAhead, SpeedIsPossible, SpiceReadBytes, meterVars, sessionVars
  <1>3. CASE Ping
    <2>1. meter' = meter /\ thread # "ended"
      BY <1>3
      DEF Ping, ping_starts, ping_job_ends, ping_ends, ping_parsed, sleep_ends, threadFrame, Go
    <2>2. /\ thread' \in {"loop", "ping", "parse", "sleep", "ended"}
          /\ pinged' \in Addresses \cup {NoAddress}
          /\ quality' \in Addresses \cup {NoAddress}
      BY <1>3
      DEF OthersTyped, Ping, ping_starts, ping_job_ends, ping_ends, ping_parsed, sleep_ends, Go
    <2>3. meter # "gone"
      BY <2>1 DEF ThreadWaitedFor
    <2> QED
      BY <1>1, <1>2, <2>1, <2>2, <2>3
      DEF OthersTyped, ThreadWaitedFor, meterVars, sessionVars
  <1>4. CASE finalize \/ thread_joined
    BY <1>1, <1>2, <1>4
    DEF OthersTyped, ThreadWaitedFor, finalize, thread_joined, finalizeFrame, meterVars,
        sessionVars, pingVars
  <1> QED
    BY <1>3, <1>4

THEOREM NextPreserves == IInv /\ [Next]_vars => IInv'
  <1> SUFFICES ASSUME IInv, [Next]_vars
               PROVE  IInv'
    OBVIOUS
  <1>1. CASE gone \/ UNCHANGED vars
    BY <1>1
    DEF IInv, ChannelsTyped, OthersTyped, CounterAhead, SpeedIsPossible, ThreadWaitedFor, SpiceReadBytes, gone,
        vars, meterVars, sessionVars, pingVars
  <1> QED
    BY <1>1, SessionStep, CheckStep, PingStep DEF Next

THEOREM InvHolds == Spec => []IInv
  BY InitEstablishes, NextPreserves, PTL DEF Spec

\* Every variable keeps its type: the counters their width, and a session that has
\* ended has no channels.
THEOREM TypeCorrect == Spec => []TypeOK
  <1>1. IInv => TypeOK
    BY DEF IInv, ChannelsTyped, OthersTyped, TypeOK
  <1> QED
    BY <1>1, InvHolds, PTL

\* No speed is sent that could not have been, for any number of channels and bytes and
\* any width of the counters.
THEOREM SpeedIsPossibleHolds == Spec => []SpeedIsPossible
  <1>1. IInv => SpeedIsPossible
    BY DEF IInv
  <1> QED
    BY <1>1, InvHolds, PTL

\* Nothing of the meter is used after it was freed.
THEOREM NothingUsedAfterFreeHolds == Spec => NothingUsedAfterFree
  <1>1. IInv /\ [Next]_vars => [meter = "gone" => UNCHANGED vars]_vars
    <2> SUFFICES ASSUME IInv, Next, meter = "gone"
                 PROVE  UNCHANGED vars
      OBVIOUS
    <2>1. thread = "ended"
      BY DEF IInv, ThreadWaitedFor
    <2>2. ~Session /\ ~Check
      BY DEF Session, Check, instant_start, deactivated, channel_new, channel_closed,
             bytes_received, check_idle, check_stats, Looping
    <2>3. ~Ping /\ ~finalize /\ ~thread_joined
      BY <2>1
      DEF Ping, ping_starts, ping_job_ends, ping_ends, ping_parsed, sleep_ends, Go,
          finalize, thread_joined
    <2> QED
      BY <2>2, <2>3 DEF Next, gone
  <1> QED
    BY <1>1, InvHolds, PTL DEF Spec, NothingUsedAfterFree

-----------------------------------------------------------------------------
(* The updater.                                                            *)

\* A password that is kept, and was not left behind by an update that was turned away,
\* is that of an update that has yet to pass clear_mark.
PasswordInUse ==
    password /\ ~turnedAway =>
        \E u \in Updates : update[u] \in {"queued", "check", "work", "clear"}

\* Where nothing that will set the button is queued or open, it is as it should be.
ButtonInformed ==
    dialog # "closed" =>
        \/ idles > 0 \/ boxes > 0
        \/ ((sensitive <=> ~isGetting) \/ staleBox) /\ (sensitive \/ isGetting)

UpdaterInv == UpdaterTypeOK /\ PasswordInUse /\ ButtonInformed /\ FlagsHaveOwners

THEOREM UpdaterInitEstablishes == UpdaterInit => UpdaterInv
  <1> SUFFICES ASSUME UpdaterInit
               PROVE  UpdaterInv
    OBVIOUS
  <1>1. idles \in 0 .. MaxIdles /\ boxes \in 0 .. MaxBoxes /\ ~(boxes > 0)
    BY MaxIdlesAssumption, MaxBoxesAssumption DEF UpdaterInit
  <1>2. check \in [Checks -> CheckPcs] /\ update \in [Updates -> UpdatePcs]
    BY DEF UpdaterInit, CheckPcs, UpdatePcs
  <1>3. UpdaterTypeOK
    BY <1>1, <1>2, Zenon DEF UpdaterInit, UpdaterTypeOK
  <1> QED
    BY <1>3 DEF UpdaterInit, UpdaterInv, PasswordInUse, ButtonInformed, FlagsHaveOwners

\* A check that goes on is where it goes to, and the others are where they were.
LEMMA CheckMoves ==
    ASSUME UpdaterTypeOK, NEW c \in Checks, NEW here, NEW there \in CheckPcs,
           GoCheck(c, here, there)
    PROVE  /\ check' \in [Checks -> CheckPcs]
           /\ check'[c] = there
           /\ \A d \in Checks : d # c => check'[d] = check[d]
  BY DEF UpdaterTypeOK, GoCheck

\* So it is with an update.
LEMMA UpdateMoves ==
    ASSUME UpdaterTypeOK, NEW u \in Updates, NEW here, NEW there \in UpdatePcs,
           GoUpdate(u, here, there)
    PROVE  /\ update' \in [Updates -> UpdatePcs]
           /\ update[u] = here /\ update'[u] = there
           /\ \A d \in Updates : d # u => update'[d] = update[d]
  BY DEF UpdaterTypeOK, GoUpdate

\* The checks touch neither the password, nor the dialog, nor the updates.
LEMMA CheckPreserves ==
    ASSUME UpdaterInv, NEW c \in Checks, CheckWorker(c) \/ check_updates_task_finished(c)
    PROVE  UpdaterInv'
  <1> USE DEF UpdaterInv
  <1>1. UNCHANGED checkFrame
    BY DEF CheckWorker, check_begins, check_entered, check_ends, check_updates_task_finished
  <1>2. PasswordInUse' /\ ButtonInformed'
    BY <1>1 DEF checkFrame, updateVars, dialogVars, PasswordInUse, ButtonInformed
  <1>3. check' \in [Checks -> CheckPcs] /\ isChecking' \in BOOLEAN /\ told' \in BOOLEAN
        /\ win' = win
    BY DEF CheckWorker, check_begins, check_entered, check_ends,
           check_updates_task_finished, UpdaterTypeOK, GoCheck, CheckPcs
  <1>4. UpdaterTypeOK'
    BY <1>1, <1>3 DEF checkFrame, updateVars, dialogVars, UpdaterTypeOK
  <1>5. isChecking' => \E d \in Checks : check'[d] = "running"
    <2>1. CASE check_begins(c)
      <3>1. PICK there \in {"skipped", "entering"} : GoCheck(c, "queued", there)
        BY <2>1 DEF check_begins
      <3>2. \A d \in Checks : check[d] = "running" => check'[d] = "running"
        BY <3>1 DEF GoCheck, UpdaterTypeOK
      <3> QED
        BY <2>1, <3>2 DEF check_begins, FlagsHaveOwners
    <2>2. CASE check_entered(c)
      BY <2>2 DEF check_entered, GoCheck, UpdaterTypeOK
    <2>3. CASE check_ends(c)
      BY <2>3 DEF check_ends
    <2>4. CASE check_updates_task_finished(c)
      BY <2>4 DEF check_updates_task_finished, FlagsHaveOwners, UpdaterTypeOK
    <2> QED
      BY <2>1, <2>2, <2>3, <2>4 DEF CheckWorker
  <1> QED
    BY <1>1, <1>2, <1>4, <1>5 DEF FlagsHaveOwners, checkFrame, updateVars

\* The workers of the updates.
LEMMA UpdatePreserves ==
    ASSUME UpdaterInv, NEW u \in Updates, UpdateWorker(u)
    PROVE  UpdaterInv'
  <1> USE DEF UpdaterInv
  <1>1. UNCHANGED <<checkVars, dialogVars>> /\ UNCHANGED staleBox
    BY DEF UpdateWorker, update_begins, password_refused, password_accepted, commands_end,
           forget_password, lower_flag, workerFrame
  <1>2. PICK here \in UpdatePcs, there \in UpdatePcs : GoUpdate(u, here, there)
    BY DEF UpdateWorker, update_begins, password_refused, password_accepted, commands_end,
           forget_password, lower_flag, UpdatePcs
  <1>3. /\ update' \in [Updates -> UpdatePcs]
        /\ update[u] = here /\ update'[u] = there
        /\ \A d \in Updates : d # u => update'[d] = update[d]
    BY <1>2, UpdateMoves
  <1>4. /\ isGetting' \in BOOLEAN /\ password' \in BOOLEAN /\ turnedAway' \in BOOLEAN
        /\ idles' \in 0 .. MaxIdles
    <2>1. isGetting' \in BOOLEAN /\ password' \in BOOLEAN
      BY DEF UpdaterTypeOK, UpdateWorker, update_begins, password_refused,
             password_accepted, commands_end, forget_password, lower_flag
    <2>2. turnedAway' \in BOOLEAN
      BY Zenon DEF UpdaterTypeOK, UpdateWorker, update_begins, password_refused,
             password_accepted, commands_end, forget_password, lower_flag
    <2>3. idles' \in 0 .. MaxIdles
      BY MaxIdlesAssumption
      DEF UpdaterTypeOK, UpdateWorker, update_begins, password_refused,
          password_accepted, commands_end, forget_password, lower_flag
    <2> QED
      BY <2>1, <2>2, <2>3
  <1>5. UpdaterTypeOK'
    BY <1>1, <1>3, <1>4 DEF checkVars, dialogVars, UpdaterTypeOK
  <1>6. PasswordInUse'
    <2>1. CASE update_begins(u)
      <3>1. CASE isGetting
        BY <1>3, <2>1, <3>1 DEF update_begins, PasswordInUse
      <3>2. CASE ~isGetting
        BY <1>3, <2>1, <3>2 DEF update_begins, PasswordInUse, GoUpdate, UpdaterTypeOK
      <3> QED
        BY <3>1, <3>2
    <2>2. CASE password_refused(u) \/ password_accepted(u) \/ commands_end(u)
      <3>1. update'[u] \in {"work", "clear"}
        BY <2>2, UpdateMoves
        DEF password_refused, password_accepted, commands_end, UpdatePcs
      <3> QED
        BY <3>1 DEF PasswordInUse
    <2>3. CASE forget_password(u)
      BY <2>3 DEF forget_password, PasswordInUse
    <2>4. CASE lower_flag(u)
      <3>1. update[u] = "lower"
        BY <2>4 DEF lower_flag, GoUpdate
      <3> QED
        BY <1>3, <2>4, <3>1 DEF lower_flag, PasswordInUse
    <2> QED
      BY <2>1, <2>2, <2>3, <2>4 DEF UpdateWorker
  <1>7. ButtonInformed'
    <2>1. idles \in Nat
      BY MaxIdlesAssumption DEF UpdaterTypeOK
    <2> QED
      BY <1>1, <2>1
      DEF UpdateWorker, update_begins, password_refused, password_accepted, commands_end,
          forget_password, lower_flag, dialogVars, ButtonInformed
  <1>8. FlagsHaveOwners'
    <2>1. isGetting' => \E d \in Updates : update'[d] \in {"work", "clear", "lower"}
      <3>1. CASE update_begins(u) \/ password_refused(u)
        <4>1. isGetting' = isGetting /\ update[u] \in {"queued", "check"}
          BY <3>1 DEF update_begins, password_refused, GoUpdate
        <4>2. \A d \in Updates :
                 update[d] \in {"work", "clear", "lower"} => update'[d] = update[d]
          BY <1>3, <4>1
        <4> QED
          BY <4>1, <4>2 DEF FlagsHaveOwners
      <3>2. CASE password_accepted(u) \/ commands_end(u) \/ forget_password(u)
        <4>1. update'[u] \in {"work", "clear", "lower"}
          BY <3>2, UpdateMoves
          DEF password_accepted, commands_end, forget_password, UpdatePcs
        <4> QED
          BY <4>1
      <3>3. CASE lower_flag(u)
        BY <3>3 DEF lower_flag
      <3> QED
        BY <3>1, <3>2, <3>3 DEF UpdateWorker
    <2> QED
      BY <1>1, <2>1 DEF checkVars, FlagsHaveOwners
  <1> QED
    BY <1>5, <1>6, <1>7, <1>8

\* The user, the login window and the settings dialog.
LEMMA UserPreserves ==
    ASSUME UpdaterInv, User
    PROVE  UpdaterInv'
  <1> USE DEF UpdaterInv
  <1>1. idles \in Nat /\ boxes \in Nat
    BY MaxIdlesAssumption, MaxBoxesAssumption DEF UpdaterTypeOK
  <1>2. CASE remote_viewer_connect_show
    <2>1. PICK c \in Checks : GoCheck(c, "idle", "queued")
      BY <1>2 DEF remote_viewer_connect_show
    <2>2. /\ check' \in [Checks -> CheckPcs]
          /\ \A d \in Checks : check[d] = "running" => check'[d] = "running"
      BY <2>1 DEF GoCheck, UpdaterTypeOK, CheckPcs
    <2> QED
      BY <1>2, <2>2
      DEF remote_viewer_connect_show, checkFrame, updateVars, dialogVars, UpdaterTypeOK,
          PasswordInUse, ButtonInformed, FlagsHaveOwners
  <1>3. CASE remote_viewer_connect_finish_job
    BY <1>3
    DEF remote_viewer_connect_finish_job, updateVars, UpdaterTypeOK, PasswordInUse,
        ButtonInformed, FlagsHaveOwners
  <1>4. CASE dialog_opened
    BY <1>4
    DEF dialog_opened, checkVars, updateVars, UpdaterTypeOK, PasswordInUse, ButtonInformed,
        FlagsHaveOwners
  <1>5. CASE dialog_closed
    <2>1. ~ask' /\ ~(boxes' > 0)
      BY <1>1, <1>5 DEF dialog_closed
    <2> QED
      BY <1>5, <2>1, Zenon
      DEF dialog_closed, checkVars, updateVars, UpdaterTypeOK, PasswordInUse,
          ButtonInformed, FlagsHaveOwners
  <1>6. CASE btn_get_app_updates_clicked
    BY <1>6
    DEF btn_get_app_updates_clicked, checkVars, updateVars, UpdaterTypeOK, PasswordInUse,
        ButtonInformed, FlagsHaveOwners
  <1>7. CASE error_box_closed
    <2>1. boxes' \in 0 .. MaxBoxes /\ dialog' # "closed"
      BY <1>1, <1>7, MaxBoxesAssumption DEF error_box_closed, UpdaterTypeOK
    <2>2. sensitive' = TRUE /\ staleBox' \in BOOLEAN /\ (isGetting => staleBox')
      BY <1>7, Zenon DEF error_box_closed, UpdaterTypeOK
    <2>3. /\ UNCHANGED <<dialog, ask, check, isChecking, win, told, idles>>
          /\ UNCHANGED <<update, isGetting, password, turnedAway>>
      BY <1>7 DEF error_box_closed, checkVars, updateVars
    <2>4. UpdaterTypeOK'
      BY <2>1, <2>2, <2>3, Zenon DEF UpdaterTypeOK
    <2>5. ButtonInformed'
      BY <2>2, <2>3 DEF ButtonInformed
    <2>6. PasswordInUse' /\ FlagsHaveOwners'
      BY <2>3 DEF PasswordInUse, FlagsHaveOwners
    <2> QED
      BY <2>4, <2>5, <2>6
  <1>8. ASSUME NEW ok \in BOOLEAN, password_box_closed(ok)
        PROVE  UpdaterInv'
    <2>1. /\ update' \in [Updates -> UpdatePcs]
          /\ password' => \E u \in Updates : update'[u] = "queued"
          /\ \A d \in Updates :
                update[d] \in {"work", "clear", "lower"} => update'[d] = update[d]
      <3>1. CASE password'
        <4>1. PICK u \in Updates : GoUpdate(u, "idle", "queued")
          BY <1>8, <3>1 DEF password_box_closed
        <4>2. "queued" \in UpdatePcs
          BY DEF UpdatePcs
        <4> QED
          BY <4>1, <4>2, UpdateMoves
      <3>2. CASE ~password'
        BY <1>8, <3>2 DEF password_box_closed, UpdaterTypeOK
      <3> QED
        BY <3>1, <3>2
    <2>2. /\ UNCHANGED <<isGetting, turnedAway, dialog, sensitive, boxes, idles, staleBox>>
          /\ UNCHANGED checkVars /\ ask' = FALSE /\ password' \in BOOLEAN
      BY <1>8 DEF password_box_closed, UpdaterTypeOK
    <2>3. UpdaterTypeOK'
      BY <2>1, <2>2 DEF checkVars, UpdaterTypeOK
    <2>4. PasswordInUse' /\ ButtonInformed'
      BY <2>1, <2>2 DEF PasswordInUse, ButtonInformed
    <2>5. FlagsHaveOwners'
      BY <2>1, <2>2 DEF checkVars, FlagsHaveOwners
    <2> QED
      BY <2>3, <2>4, <2>5
  <1> QED
    BY <1>2, <1>3, <1>4, <1>5, <1>6, <1>7, <1>8 DEF User

\* The callback of the dialog, with the flag as it is when it runs.
LEMMA StateChangedPreserves ==
    ASSUME UpdaterInv, state_changed
    PROVE  UpdaterInv'
  <1> USE DEF UpdaterInv
  <1>1. idles \in Nat /\ boxes \in Nat /\ MaxIdles \in Nat /\ MaxBoxes \in Nat
    BY MaxIdlesAssumption, MaxBoxesAssumption DEF UpdaterTypeOK
  <1>2. UpdaterTypeOK'
    <2>1. idles' \in 0 .. MaxIdles /\ boxes' \in 0 .. MaxBoxes
      BY <1>1 DEF state_changed, UpdaterTypeOK
    <2>2. (ask \/ boxes' > 0) => dialog # "closed"
      BY DEF state_changed, UpdaterTypeOK
    <2>3. sensitive' \in BOOLEAN
      BY Zenon DEF state_changed, UpdaterTypeOK
    <2> QED
      BY <2>1, <2>2, <2>3, Zenon DEF state_changed, checkVars, updateVars, UpdaterTypeOK
  <1>3. ButtonInformed'
    <2>1. CASE dialog = "closed"
      BY <2>1 DEF state_changed, ButtonInformed
    <2>2. CASE sensitive' = ~isGetting
      BY <2>2 DEF state_changed, updateVars, ButtonInformed, UpdaterTypeOK
    <2>3. CASE boxes' = boxes + 1
      BY <1>1, <2>3 DEF ButtonInformed
    <2> QED
      BY <2>1, <2>2, <2>3 DEF state_changed
  <1> QED
    BY <1>2, <1>3 DEF state_changed, checkVars, updateVars, PasswordInUse, FlagsHaveOwners

THEOREM UpdaterNextPreserves == UpdaterInv /\ [UpdaterNext]_updaterVars => UpdaterInv'
  <1> SUFFICES ASSUME UpdaterInv, [UpdaterNext]_updaterVars
               PROVE  UpdaterInv'
    OBVIOUS
  <1>1. CASE UNCHANGED updaterVars
    BY <1>1
    DEF updaterVars, checkVars, updateVars, dialogVars, UpdaterInv, UpdaterTypeOK,
        PasswordInUse, ButtonInformed, FlagsHaveOwners
  <1> QED
    BY <1>1, CheckPreserves, UpdatePreserves, UserPreserves, StateChangedPreserves
    DEF UpdaterNext

THEOREM UpdaterInvHolds == UpdaterSpec => []UpdaterInv
  BY UpdaterInitEstablishes, UpdaterNextPreserves, PTL DEF UpdaterSpec

\* Every variable of the updater keeps its type, and no box outlives the dialog its
\* widgets belong to, however the answer to a login ends the dialog's loop under it.
THEOREM UpdaterTypeCorrect == UpdaterSpec => []UpdaterTypeOK
  <1>1. UpdaterInv => UpdaterTypeOK
    BY DEF UpdaterInv
  <1> QED
    BY <1>1, UpdaterInvHolds, PTL

\* Between two updates no password of the administrator is kept, unless one of them was
\* turned away, for any number of updates.
THEOREM PasswordForgottenHolds == UpdaterSpec => []PasswordForgotten
  <1>1. UpdaterInv => PasswordForgotten
    BY DEF UpdaterInv, UpdaterTypeOK, PasswordInUse, PasswordForgotten
  <1> QED
    BY <1>1, UpdaterInvHolds, PTL

\* The button is off exactly while an update runs, when nothing is queued or shown, for
\* any number of updates, callbacks and boxes and with the one exception named.
THEOREM ButtonFollowsUpdateHolds == UpdaterSpec => []ButtonFollowsUpdate
  <1>1. UpdaterInv => ButtonFollowsUpdate
    BY DEF UpdaterInv, ButtonInformed, ButtonFollowsUpdate
  <1> QED
    BY <1>1, UpdaterInvHolds, PTL

\* A flag that is up has a task that will lower it.
THEOREM FlagsHaveOwnersHolds == UpdaterSpec => []FlagsHaveOwners
  <1>1. UpdaterInv => FlagsHaveOwners
    BY DEF UpdaterInv
  <1> QED
    BY <1>1, UpdaterInvHolds, PTL

\* A button that is off, with nothing queued or shown that would turn it on, is off for
\* an update at work.
THEOREM ButtonComesBackHolds == UpdaterSpec => []ButtonComesBack
  <1>1. UpdaterInv => ButtonComesBack
    BY DEF UpdaterInv, ButtonInformed, FlagsHaveOwners, ButtonComesBack
  <1> QED
    BY <1>1, UpdaterInvHolds, PTL
=============================================================================
