--------------------------- MODULE NetSpeedometer ---------------------------
(***************************************************************************)
(* The meter of the connection (src/net_speedometer/net_speedometer.c) of  *)
(* a SPICE session: every five seconds the main loop reads how many bytes  *)
(* the channels received and sends the speed to the broker, together with  *)
(* the quality a thread of the meter's own measures with ping.             *)
(*                                                                         *)
(* The meter lives as long as the application: sessions come and go under  *)
(* it, and with them the counters it takes differences of, and the address *)
(* it pings.  The end of the application waits for the thread.             *)
(***************************************************************************)
EXTENDS Integers, Sequences, SequencesExt

CONSTANTS
    Addresses,    \* addresses of virtual machines
    NoAddress,    \* vm_ip before the first session
    MaxBytes,     \* Bound: bytes received through one channel
    MaxChannels,  \* Bound: channels of a session, all of one type (displays)
    Chunks,       \* Bound: bytes received at one time
    MaxArrived,   \* Bound: bytes received between two checks
    Modulus       \* 2 ^ 64 in the program: a counter wraps there

ASSUME AddressesAssumption == NoAddress \notin Addresses
ASSUME MaxBytesAssumption == MaxBytes \in Nat
ASSUME ModulusAssumption == Modulus \in Nat /\ Modulus > MaxBytes
ASSUME ChannelsAssumption == MaxChannels \in Nat
ASSUME ChunksAssumption == Chunks \subseteq Nat

VARIABLES
    meter,      \* in use; its finalize waits for the thread; freed
    active,     \* the viewer has a session
    channels,   \* the bytes each channel of the session received, the latest first
    readBytes,  \* nw.spice_read_bytes: what the last check read
    speed,      \* nw.spice_total_read_speed, as it was last sent
    vmIp,       \* vm_ip
    thread,     \* where the thread of the ping is
    pinged,     \* the address its ping was given
    quality,    \* the address the loss and the round trip were measured with
    arrived,    \* history: bytes received since the last check
    dropped,    \* history: a channel was closed since then
    sent        \* history: arrived and dropped, as they were when the speed was sent

meterVars == <<readBytes, speed, sent>>
sessionVars == <<active, channels, arrived, dropped>>
pingVars == <<thread, pinged, quality>>
vars == <<meter, vmIp, meterVars, sessionVars, pingVars>>

Bytes == 0 .. MaxBytes
CHECK_TIMEOUT == 5   \* STATS_CHECK_TIMEOUT, in seconds

TypeOK ==
    /\ meter \in {"on", "closing", "gone"}
    /\ active \in BOOLEAN
    /\ channels \in Seq(Bytes) /\ Len(channels) <= MaxChannels
    /\ ~active => channels = <<>>
    /\ readBytes \in Bytes
    /\ speed \in Nat
    /\ vmIp \in Addresses \cup {NoAddress}
    /\ thread \in {"loop", "ping", "parse", "sleep", "ended"}
    /\ pinged \in Addresses \cup {NoAddress}
    /\ quality \in Addresses \cup {NoAddress}
    /\ arrived \in Nat /\ dropped \in BOOLEAN
    /\ sent \in [arrived : Nat, dropped : BOOLEAN]

Init ==
    /\ meter = "on" /\ vmIp = NoAddress
    /\ active = FALSE /\ channels = <<>>
    /\ readBytes = 0 /\ speed = 0
    /\ thread = "loop" /\ pinged = NoAddress /\ quality = NoAddress
    /\ arrived = 0 /\ dropped = FALSE
    /\ sent = [arrived |-> 0, dropped |-> FALSE]

-----------------------------------------------------------------------------
(* The sessions of the viewer.                                             *)

Looping == meter = "on"

\* virt_viewer_app_instant_start: the meter is told the address, the figures of the
\* machine before stay.
instant_start ==
    /\ Looping /\ ~active
    /\ vmIp' \in Addresses
    /\ active' = TRUE
    /\ UNCHANGED <<meter, channels, arrived, dropped, meterVars, pingVars>>

deactivated ==
    /\ Looping /\ active
    /\ active' = FALSE /\ channels' = <<>>
    /\ dropped' = (dropped \/ channels # <<>>)
    /\ UNCHANGED <<meter, vmIp, arrived, meterVars, pingVars>>

channel_new ==
    /\ Looping /\ active /\ Len(channels) < MaxChannels
    /\ channels' = <<0>> \o channels
    /\ UNCHANGED <<meter, vmIp, active, arrived, dropped, meterVars, pingVars>>

channel_closed(i) ==
    /\ Looping /\ active /\ i \in DOMAIN channels
    /\ channels' = RemoveAt(channels, i)
    /\ dropped' = TRUE
    /\ UNCHANGED <<meter, vmIp, active, arrived, meterVars, pingVars>>

bytes_received(i, n) ==
    /\ Looping /\ active /\ i \in DOMAIN channels
    /\ channels[i] + n <= MaxBytes /\ arrived + n <= MaxArrived
    /\ channels' = [channels EXCEPT ![i] = @ + n]
    /\ arrived' = arrived + n
    /\ UNCHANGED <<meter, vmIp, active, dropped, meterVars, pingVars>>

-----------------------------------------------------------------------------
(* The check of every five seconds.                                        *)

\* get_speed, of unsigned numbers.
get_speed(cur, prev) == ((cur - prev) % Modulus) \div CHECK_TIMEOUT

\* virt_viewer_session_spice_get_stats: each channel of the type overwrites the number
\* of the one before it.
SpiceReadBytes == IF channels = <<>> THEN 0 ELSE channels[Len(channels)]

\* A mutant of check_idle: the numbers of the session that has ended are kept.
CheckIdleKeepsBytes ==
    /\ Looping /\ ~active
    /\ arrived' = 0 /\ dropped' = FALSE
    /\ UNCHANGED <<meter, vmIp, active, channels, meterVars, pingVars>>

\* net_speedometer_check_stats without a session.
check_idle ==
    /\ Looping /\ ~active
    /\ readBytes' = 0
    /\ arrived' = 0 /\ dropped' = FALSE
    /\ UNCHANGED <<meter, vmIp, active, channels, speed, sent, pingVars>>

\* net_speedometer_check_stats with one.
check_stats ==
    /\ Looping /\ active
    /\ speed' = get_speed(SpiceReadBytes, readBytes)
    /\ readBytes' = SpiceReadBytes
    /\ sent' = [arrived |-> arrived, dropped |-> dropped]
    /\ arrived' = 0 /\ dropped' = FALSE
    /\ UNCHANGED <<meter, vmIp, active, channels, pingVars>>

-----------------------------------------------------------------------------
(* The thread: net_speedometer_ping_job_linux.                             *)

threadFrame == <<meter, vmIp, meterVars, sessionVars>>

Go(here, there) == thread = here /\ thread' = there

\* A mutant of ping_starts: the address is read once, for all the pings.
PingStartsOnce ==
    /\ meter = "on"
    /\ pinged' = IF pinged = NoAddress THEN vmIp ELSE pinged
    /\ Go("loop", IF pinged' = NoAddress THEN "sleep" ELSE "ping")
    /\ UNCHANGED <<quality, threadFrame>>

\* The flag is up: a copy of the address is taken.
ping_starts ==
    /\ meter = "on"
    /\ pinged' = vmIp
    /\ Go("loop", IF vmIp = NoAddress THEN "sleep" ELSE "ping")
    /\ UNCHANGED <<quality, threadFrame>>

\* A mutant of ping_job_ends: the flag is not read while there is no address.
PingJobEndsWithAddress ==
    /\ meter # "on"
    /\ Go("loop", IF vmIp = NoAddress THEN "sleep" ELSE "ended")
    /\ UNCHANGED <<pinged, quality, threadFrame>>

\* The flag is down: is_ping_job_running.
ping_job_ends ==
    /\ meter # "on"
    /\ Go("loop", "ended")
    /\ UNCHANGED <<pinged, quality, threadFrame>>

\* Five packets were sent, and the figures are reset.
ping_ends ==
    /\ Go("ping", "parse")
    /\ quality' = NoAddress
    /\ UNCHANGED <<pinged, threadFrame>>

\* They are read from the output, unless there was none.
ping_parsed ==
    /\ Go("parse", "sleep")
    /\ quality' \in {pinged, NoAddress}
    /\ UNCHANGED <<pinged, threadFrame>>

\* cancellable_sleep: thirty seconds, or until the flag is down.
sleep_ends ==
    /\ Go("sleep", "loop")
    /\ UNCHANGED <<pinged, quality, threadFrame>>

Ping ==
    \/ ping_starts \/ ping_job_ends \/ ping_ends \/ ping_parsed \/ sleep_ends

-----------------------------------------------------------------------------
(* net_speedometer_finalize.                                               *)

finalizeFrame == <<vmIp, meterVars, sessionVars, pingVars>>

\* The flag is lowered, and g_thread_join blocks the main loop.
finalize ==
    /\ meter = "on"
    /\ meter' = "closing"
    /\ UNCHANGED finalizeFrame

\* A mutant of thread_joined: the thread is not waited for.
ThreadNotJoined ==
    /\ meter = "closing"
    /\ meter' = "gone"
    /\ UNCHANGED finalizeFrame

thread_joined ==
    /\ meter = "closing" /\ thread = "ended"
    /\ meter' = "gone"
    /\ UNCHANGED finalizeFrame

gone == meter = "gone" /\ thread = "ended" /\ UNCHANGED vars

Check == check_idle \/ check_stats

Session ==
    \/ instant_start \/ deactivated \/ channel_new
    \/ \E i \in 1 .. MaxChannels :
          channel_closed(i) \/ \E n \in Chunks : bytes_received(i, n)

Next == Session \/ Check \/ Ping \/ finalize \/ thread_joined \/ gone

\* The thread runs, and a ping of five packets ends; so does the wait for the thread.
Fairness == WF_vars(Ping) /\ WF_vars(thread_joined)

Spec == Init /\ [][Next]_vars /\ Fairness

-----------------------------------------------------------------------------
(* Properties.                                                             *)

\* No speed is sent that could not have been: at most what was received since the last
\* check, whatever sessions began and ended, unless one of them, or a channel, was
\* closed since that check, when the difference of the counters may wrap.
SpeedIsPossible == sent.dropped \/ speed * CHECK_TIMEOUT <= sent.arrived

\* "There can be more than one channel of a type, so we sum them"
\* (virt_viewer_session_spice_get_stats): as long as none is closed, the speed is that
\* of all of them.
ChannelsAreSummed == sent.dropped \/ speed = sent.arrived \div CHECK_TIMEOUT

\* While one machine is shown, the quality sent with its speed is sooner or later that
\* of the way to it, or unknown, and from then on never again that of the way to the
\* machine before it, whose ping was under way when it was left.
QualityCatchesUp ==
    \A a \in Addresses :
        <>[](vmIp = a /\ meter = "on") => <>[](quality \in {a, NoAddress})

\* Nothing of the meter is used after it was freed.
NothingUsedAfterFree == [][meter = "gone" => UNCHANGED vars]_vars

\* The end of the application, which waits for the thread, comes.
MeterGoes == meter = "closing" ~> meter = "gone"
=============================================================================
