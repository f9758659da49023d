------------------------------ MODULE WifiJoin ------------------------------
(***************************************************************************)
(* Joining a WiFi network with the CYW4343W: cyw4343w/src/join.cpp and     *)
(* event.cpp, the start-up loop of WIFI_init.cpp, and the driver's         *)
(* proc_input() and poll() in driver_CYW4343W.cpp, which Ethernet.loop()   *)
(* calls in turn.  The chip queues frames in order; it is modelled from    *)
(* how this code uses it.  A function of the driver that other drivers     *)
(* have under the same name is CYW4343W_ and its name.                     *)
(*                                                                         *)
(* Time is counted in ticks; age is what micros() - join_ticks has reached *)
(* and down the time since the last failure, both up to Longest.  A tick   *)
(* is no shorter than EVENT_POLL_USEC.                                     *)
(***************************************************************************)
EXTENDS Integers, Sequences

CONSTANTS
    JOIN_TRY,     \* JOIN_TRY_USEC, in ticks
    JOIN_RETRY,   \* JOIN_RETRY_USEC, in ticks
    MaxWaiting    \* bound: frames that wait in the chip

ASSUME TimesAssumption ==
    JOIN_TRY \in Nat \ {0} /\ JOIN_RETRY \in Nat \ {0} /\ MaxWaiting \in Nat

VARIABLES
    pc,      \* before init() ("start"), in WIFIinit()'s loop ("init"), then the
             \* driver's turns
    join,    \* event_info.join
    link,    \* event_info.link, as the set of its bits
    age,     \* time since join_ticks was set
    due,     \* has EVENT_POLL_USEC passed for certain since poll_ticks?
    netifUp, \* NETIF_FLAG_LINK_UP
    radio,   \* the chip: its association with the network
    rx,      \* the frames it has for the host
    down,    \* history: time since join_state_poll()'s last join_stop()
    asked    \* history: has join_start() asked for the network between two attempts?

joinVars == <<pc, join, link, age, due, netifUp, radio, rx, down, asked>>

JoinStates == {"IDLE", "JOINING", "OK", "FAIL"}
LinkBits   == {"UP", "AUTH", "FAIL"}
Events     == {"linkUp", "linkDown", "pskOk", "pskFail", "disassoc", "otherEvent"}
Frames     == Events \cup {"notAnEvent"}
Radio      == {"off", "joining", "linked", "joined", "lost"}

Longest == IF JOIN_TRY < JOIN_RETRY THEN JOIN_RETRY ELSE JOIN_TRY

JoinInit ==
    /\ pc = "start" /\ join = "IDLE" /\ link = {} /\ age = 0
    /\ due = FALSE /\ netifUp = FALSE /\ radio = "off" /\ rx = <<>> /\ down = 0
    /\ asked = FALSE

-----------------------------------------------------------------------------
(* join.cpp.                                                               *)

\* link_check() and join_check().  JOIN_OK is 2 and JOIN_FAIL is 3, so that
\* the test of the bit JOIN_OK succeeds for both.
link_check(bits) == IF {"UP", "AUTH"} \subseteq bits THEN 1
                    ELSE IF bits = {"FAIL"} THEN -1 ELSE 0
join_check(state) == IF state \in {"OK", "FAIL"} THEN 2 ELSE 0

\* join_event_handler(): the values link may have after a frame.  news is not
\* initialized for a frame that is not an event.
join_event_handler(bits, frame) ==
    CASE frame = "linkUp"     -> {bits \cup {"UP"}}
      [] frame = "linkDown"   -> {bits \ {"UP"}}
      [] frame = "pskOk"      -> {bits \cup {"AUTH"}}
      [] frame = "pskFail"    -> {bits \ {"AUTH"}}
      [] frame = "disassoc"   -> {{"FAIL"}}
      [] frame = "otherEvent" -> {bits}
      [] OTHER                -> SUBSET LinkBits

\* pollEvents(): the next frame, if there is one.
Polled(bits, queue) == IF queue = <<>> THEN {bits}
                       ELSE join_event_handler(bits, Head(queue))
Rest(queue) == IF queue = <<>> THEN queue ELSE Tail(queue)

\* An ioctl reads frames until it finds its response and drops the others;
\* it may give up before.
Discarded(queue) == {SubSeq(queue, n + 1, Len(queue)) : n \in 0..Len(queue)}

\* Mutant: the state machine gives up without taking the interface down.
join_stop_Mutant == UNCHANGED <<radio, down>>

\* join_stop(): WLC_DOWN.
join_stop == radio' = "off" /\ down' = 0

\* join_restart(): the network is asked for (WLC_SET_SSID), unless an ioctl
\* before that fails.
join_restart(air) == radio' \in {"joining", air} /\ UNCHANGED down

\* Mutants: the timer is not set again when an attempt fails early; an attempt
\* has no time limit.
AttemptFailed_Mutant == join' = "FAIL" /\ UNCHANGED age
TriedLongEnough_Mutant == FALSE

\* The failure of an attempt starts the time to the next one.
AttemptFailed == join' = "FAIL" /\ age' = 0
TriedLongEnough == age >= JOIN_TRY

\* join_state_poll(), with bits the value of link, queue what is in the chip and
\* air its radio when it is called.
join_state_poll(bits, queue, air) ==
    \/ /\ join = "IDLE"
       /\ join' = "JOINING" /\ link' = {} /\ age' = 0
       /\ join_restart(air)
       /\ rx' \in Discarded(queue)
    \/ /\ join = "JOINING" /\ link_check(bits) > 0
       /\ join' = "OK" /\ link' = bits /\ rx' = queue /\ radio' = air
       /\ UNCHANGED <<age, down>>
    \/ /\ join = "JOINING" /\ ~(link_check(bits) > 0)
       /\ link_check(bits) < 0 \/ TriedLongEnough
       /\ AttemptFailed /\ link' = bits
       /\ join_stop
       /\ rx' \in Discarded(queue)
    \/ /\ join = "JOINING" /\ link_check(bits) = 0 /\ ~TriedLongEnough
       /\ link' = bits /\ rx' = queue /\ radio' = air
       /\ UNCHANGED <<join, age, down>>
    \/ /\ join = "OK" /\ link_check(bits) > 0
       /\ age' = 0 /\ link' = bits /\ rx' = queue /\ radio' = air
       /\ UNCHANGED <<join, down>>
    \/ /\ join = "OK" /\ link_check(bits) < 1
       /\ join' = "FAIL" /\ age' = 0 /\ link' = bits
       /\ join_stop
       /\ rx' \in Discarded(queue)
    \/ /\ join = "FAIL"
       /\ IF age >= JOIN_RETRY THEN join' = "IDLE" /\ age' = 0
                               ELSE UNCHANGED <<join, age>>
       /\ link' = bits /\ rx' = queue /\ radio' = air
       /\ UNCHANGED down

-----------------------------------------------------------------------------
(* WIFI_init.cpp and driver_CYW4343W.cpp.                                  *)

\* WIFIinit() is called by has_hardware() until init() has marked the driver as
\* initialized: by start(), which goes on to init(), and before that by every
\* hardwareStatus(), which does not.  Where it returns to, if it does.
Returns(state) == IF join_check(state) = 2 THEN {"start", "input"} ELSE {"init"}

\* The state machine is between two attempts.
Between(state) == state \in {"IDLE", "FAIL"}

\* join_start(): set the chip up, which discards what it had, ask for the network, and
\* the first call of join_state_poll(), which asks again in JOIN_IDLE, but a second
\* time is called in JOIN_OK or JOIN_FAIL.  (If it fails WIFIinit() never returns.)
join_start ==
    /\ pc = "start"
    /\ \E queue \in Discarded(rx) : join_state_poll(link, queue, "joining")
    /\ pc' \in Returns(join')
    /\ asked' = Between(join')
    /\ UNCHANGED <<due, netifUp>>

\* WIFIinit()'s loop; link_check() is never LINK_OK, which is 3.
WIFIinit ==
    /\ pc = "init"
    /\ \E bits \in Polled(link, rx) : join_state_poll(bits, Rest(rx), radio)
    /\ pc' \in Returns(join')
    /\ asked' = (asked /\ Between(join'))
    /\ UNCHANGED <<due, netifUp>>

\* proc_input(), from lwip_driver's loop: every frame goes to the stack,
\* events too, until there are none or memory for a pbuf runs out.
CYW4343W_proc_input ==
    /\ pc = "input" /\ pc' = "poll"
    /\ rx' \in IF netifUp THEN Discarded(rx) ELSE {rx}
    /\ netifUp /\ rx # <<>> => rx' # rx
    /\ UNCHANGED <<join, link, age, due, netifUp, radio, down, asked>>

\* poll(): the events and the state machine once per EVENT_POLL_USEC, the
\* state of the link always.
CYW4343W_poll ==
    /\ pc = "poll" /\ pc' = "input"
    /\ \/ /\ \E bits \in Polled(link, rx) : join_state_poll(bits, Rest(rx), radio)
          /\ due' = FALSE /\ asked' = (asked /\ Between(join'))
       \/ ~due /\ UNCHANGED <<join, link, age, due, radio, rx, down, asked>>
    /\ netifUp' = (join_check(join') # 0)

\* Ethernet.end(): the link of the interface goes down, and deinit() is one
\* join_stop().  The state machine does not hear of it, and poll() goes on.
CYW4343W_deinit ==
    /\ pc = "input"
    /\ netifUp' = FALSE
    /\ radio' = "off" /\ rx' \in Discarded(rx)
    /\ UNCHANGED <<pc, join, link, age, due, down, asked>>

-----------------------------------------------------------------------------
(* The chip and time.                                                      *)

Sends(frame) == Len(rx) < MaxWaiting /\ rx' = Append(rx, frame)

\* The chip associates, authenticates, fails to, loses the network, or has a
\* frame that is not about this.
RadioSends ==
    /\ \/ radio = "joining" /\ radio' = "linked" /\ Sends("linkUp")
       \/ radio = "linked" /\ radio' = "joined" /\ Sends("pskOk")
       \/ radio = "linked" /\ radio' = "lost" /\ Sends("pskFail")
       \/ /\ radio \in {"linked", "joined"} /\ radio' = "lost"
          /\ Sends("linkDown") \/ Sends("disassoc")
       \/ /\ radio # "off" /\ Sends("otherEvent")
          /\ UNCHANGED radio
       \/ /\ radio = "joined" /\ Sends("notAnEvent")
          /\ UNCHANGED radio
    /\ UNCHANGED <<pc, join, link, age, due, netifUp, down, asked>>

Later(t) == IF t < Longest THEN t + 1 ELSE t

Tick ==
    /\ age' = Later(age) /\ down' = Later(down) /\ due' = TRUE
    /\ UNCHANGED <<pc, join, link, netifUp, radio, rx, asked>>

Host == join_start \/ WIFIinit \/ CYW4343W_proc_input \/ CYW4343W_poll
JoinNext == Host \/ CYW4343W_deinit \/ RadioSends \/ Tick

JoinSpec == JoinInit /\ [][JoinNext]_joinVars

\* The program calls begin(), and Ethernet.loop() again and again, and time goes on.  The
\* chip need not do anything, nor need the program ever call end().
JoinFairSpec == JoinSpec /\ WF_joinVars(Host) /\ WF_joinVars(Tick)

-----------------------------------------------------------------------------
(* Properties.                                                             *)

\* Types of the variables of join.cpp, the driver and the chip.
TypeOK ==
    /\ pc \in {"start", "init", "input", "poll"}
    /\ join \in JoinStates /\ link \in SUBSET LinkBits
    /\ age \in 0..Longest /\ down \in 0..Longest
    /\ due \in BOOLEAN /\ netifUp \in BOOLEAN /\ radio \in Radio /\ rx \in Seq(Frames)
    /\ asked \in BOOLEAN

\* Between two attempts the interface is down (join_stop()): join_state_poll()
\* starts an attempt only with the chip off, whichever of timeout, loss of the
\* link and refusal ended the last one; unless has_hardware() has made join_start()
\* ask for the network, without the state machine, since then.
OffBetweenAttempts == Between(join) => radio = "off" \/ asked

\* A new attempt of the state machine comes JOIN_RETRY after the last one was given up,
\* or later, however that came about (the uses of join_ticks in join_state_poll()).
RetriesAreSpaced ==
    [][join = "IDLE" /\ join' = "JOINING" /\ pc # "start" => down >= JOIN_RETRY]_joinVars

\* join_state_poll() never gets stuck: an attempt ends by success or by
\* JOIN_TRY, and a failure leads to another attempt.
AttemptsGoOn ==
    /\ join = "JOINING" ~> join \in {"OK", "FAIL"}
    /\ join = "FAIL" ~> join = "JOINING"

\* driver_CYW4343W.cpp: "Poll join status. Try to re-join if link is lost."
LostLinkIsRejoined == radio = "lost" ~> radio \in {"off", "joining"}

=============================================================================
