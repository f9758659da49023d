----------------------------- MODULE DNSLookup -----------------------------
(***************************************************************************)
(* QNDNSClient.cpp: lookups with a callback, and the blocking lookup built *)
(* on them, whose callback writes to variables of the call's stack frame.  *)
(* A blocking call can end before lwIP answers, and it can run inside      *)
(* another one (its loop yields to other code).                            *)
(*                                                                         *)
(* sys_now() is a clock of ClockSize values that wraps.  lwIP gives every  *)
(* request it takes one answer, found or not, and within MaxLife.          *)
(***************************************************************************)
EXTENDS Integers

CONSTANTS
    Requests,    \* identities for Request objects
    Calls,       \* identities for stack frames of blocking lookups
    NULL,        \* no frame: a lookup with a callback of the program's own
    Timeouts,    \* timeouts a program asks for
    ClockSize,   \* number of values of sys_now(), 2^32
    MaxLife      \* the longest a request waits in lwIP, or a call to be polled

ASSUME DnsAssumption ==
    /\ NULL \notin Requests \cup Calls /\ Requests \cap Calls = {}
    /\ ClockSize \in Nat \ {0} /\ MaxLife \in Nat /\ MaxLife < ClockSize
    /\ Timeouts \subseteq 0..MaxLife

VARIABLES
    now,     \* sys_now()
    req,     \* Request -> its fields, and whether lwIP holds it
    lookup,  \* frame -> the blocking lookup in it
    age      \* time since a request or a call began, which bounds them

dnsVars == <<now, req, lookup, age>>

NoRequest == [held |-> FALSE, startTime |-> 0, timeout |-> 0, frame |-> NULL, live |-> FALSE]
NoCall == [at |-> "none", t |-> 0, timeout |-> 0, lookupDone |-> FALSE, found |-> FALSE]

\* Unsigned subtraction of times.
Since(t) == (now - t) % ClockSize

DnsInit ==
    /\ now \in {0, ClockSize - 1}
    /\ req = [r \in Requests |-> NoRequest]
    /\ lookup = [c \in Calls |-> NoCall]
    /\ age = [x \in Requests \cup Calls |-> 0]

-----------------------------------------------------------------------------
\* The blocking lookup's callback, with its captured references.
Answered(c, isFound) ==
    [lookup EXCEPT ![c].found = @ \/ isFound, ![c].lookupDone = TRUE]

\* The frame of a call is gone when the call returns.
Return(calls, c) == lookup' = [calls EXCEPT ![c] = NoCall]
Orphaned(c) == [r \in Requests |->
                   IF req[r].frame = c THEN [req[r] EXCEPT !.live = FALSE] ELSE req[r]]

\* getHostByName() with a callback, INPROGRESS: lwIP holds the request.
Ask(r, timeout, c) ==
    /\ ~req[r].held
    /\ req' = [req EXCEPT ![r] = [held |-> TRUE, startTime |-> now,
                                  timeout |-> timeout, frame |-> c, live |-> TRUE]]

\* A lookup with a callback of the program's own.  (If lwIP knows the answer,
\* or fails, the request is deleted in the same call and nothing remains.)
getHostByName(r, timeout) ==
    /\ Ask(r, timeout, NULL)
    /\ age' = [age EXCEPT ![r] = 0]
    /\ UNCHANGED <<now, lookup>>

\* A blocking lookup begins.  If lwIP knows the answer, or fails, it returns
\* at once; otherwise it goes on to its wait.
blockingStart(c, r, timeout) ==
    /\ lookup[c].at = "none"
    /\ Ask(r, timeout, c)
    /\ lookup' = [lookup EXCEPT ![c] = [NoCall EXCEPT !.at = "asked", !.timeout = timeout]]
    /\ age' = [age EXCEPT ![r] = 0, ![c] = 0]
    /\ UNCHANGED now

\* const uint32_t t = sys_now().
blockingWait(c) ==
    /\ lookup[c].at = "asked"
    /\ lookup' = [lookup EXCEPT ![c].at = "waiting", ![c].t = now]
    /\ age' = [age EXCEPT ![c] = 0]
    /\ UNCHANGED <<now, req>>

\* Mutant: a call waits without a limit.
TimedOut_Mutant(c) == FALSE
TimedOut(c) == Since(lookup[c].t) >= lookup[c].timeout

\* The wait is over: an answer, or the timeout.
blockingReturn(c) ==
    /\ lookup[c].at = "waiting"
    /\ lookup[c].lookupDone \/ TimedOut(c)
    /\ Return(lookup, c)
    /\ req' = Orphaned(c)
    /\ UNCHANGED <<now, age>>

\* Mutant: an answer at the very end of the timeout counts.
InTime_Mutant(r) == Since(req[r].startTime) <= req[r].timeout
InTime(r) == Since(req[r].startTime) < req[r].timeout

\* dnsFoundFunc(): lwIP answers; the callback is called only in time, and the
\* request is deleted.
dnsFoundFunc(r, isFound) ==
    LET c == req[r].frame
    IN  /\ req[r].held
        /\ lookup' = IF InTime(r) /\ c # NULL THEN Answered(c, isFound) ELSE lookup
        /\ req' = [req EXCEPT ![r] = NoRequest]
        /\ UNCHANGED <<now, age>>

Running == {r \in Requests : req[r].held} \cup {c \in Calls : lookup[c].at # "none"}

\* Time passes.  lwIP's timers and the wait loop keep up with it.
Tick ==
    /\ \A x \in Running : age[x] < MaxLife
    /\ now' = (now + 1) % ClockSize
    /\ age' = [x \in DOMAIN age |-> IF x \in Running THEN age[x] + 1 ELSE 0]
    /\ UNCHANGED <<req, lookup>>

DnsNext ==
    \/ \E r \in Requests, to \in Timeouts :
          getHostByName(r, to) \/ \E c \in Calls : blockingStart(c, r, to)
    \/ \E c \in Calls : blockingWait(c) \/ blockingReturn(c)
    \/ \E r \in Requests, isFound \in BOOLEAN : dnsFoundFunc(r, isFound)
    \/ Tick

DnsSpec == DnsInit /\ [][DnsNext]_dnsVars

\* A call in its loop is run, time goes on, and lwIP gives up in the end.
DnsFairSpec ==
    /\ DnsSpec
    /\ \A c \in Calls : WF_dnsVars(blockingWait(c)) /\ WF_dnsVars(blockingReturn(c))
    /\ WF_dnsVars(Tick)
    /\ \A r \in Requests : WF_dnsVars(\E isFound \in BOOLEAN : dnsFoundFunc(r, isFound))

-----------------------------------------------------------------------------
(* Properties.                                                             *)

\* dnsFoundFunc() never writes through the references of a blocking call that
\* has returned: a request that outlives its call is out of time from then on,
\* whether or not the clock wraps in between.
LateAnswersAreIgnored ==
    \A r \in Requests :
        req[r].held /\ req[r].frame # NULL /\ ~req[r].live => ~InTime(r)

\* A blocking lookup returns, whatever lwIP answers and when.
CallsReturn ==
    \A c \in Calls : lookup[c].at # "none" ~> lookup[c].at = "none"

=============================================================================
