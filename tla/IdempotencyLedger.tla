------------------------- MODULE IdempotencyLedger -------------------------
(***************************************************************************)
(* What an idempotency store promises, without backends, reads, races or   *)
(* failures: a ledger with one line per key.  A line is written by one     *)
(* call at a time, is bound to one payload, and answers every later call   *)
(* for that payload with the one response recorded in it.                  *)
(***************************************************************************)
EXTENDS Naturals

CONSTANTS Calls, Keys, Payloads, Window, Blank, NoAnswer

States == {"running", "open", "answered"}

\* by is the call that holds the line, failed on it or answered it.
Line == [state : States, payload : Payloads, by : Calls, until : Nat]

VARIABLES
  clock,
  ledger,   \* the lines
  asked,    \* the key and payload each call came with
  answer    \* the call whose response each call was given

vars == <<clock, ledger, asked, answer>>

Init ==
  /\ clock = 0
  /\ ledger = [k \in Keys |-> Blank]
  /\ asked = [c \in Calls |-> Blank]
  /\ answer = [c \in Calls |-> NoAnswer]

At(k, state) == ledger[k] # Blank /\ ledger[k].state = state

Over(k) == ledger[k].until + Window < clock

Tell(c, r) == answer[c] = NoAnswer /\ answer' = [answer EXCEPT ![c] = r]

Ask(c, k, h) ==
  /\ asked[c] = Blank
  /\ asked' = [asked EXCEPT ![c] = <<k, h>>]
  /\ UNCHANGED <<clock, ledger, answer>>

\* The line's window begins some time before now, when the call was read.
WriteLine(k, state, h, c) ==
  \E t \in 0 .. clock :
    ledger' = [ledger EXCEPT ![k] = [state |-> state, payload |-> h, by |-> c, until |-> t]]

\* A call takes a blank line, or one a call for the same payload left open.
Take(c, k, h) ==
  /\ asked[c] = <<k, h>>
  /\ ledger[k] = Blank \/ (At(k, "open") /\ ledger[k].payload = h)
  /\ WriteLine(k, "running", h, c)
  /\ UNCHANGED <<clock, asked, answer>>

\* The holder gives up; the line keeps its payload.
GiveUp(k) ==
  /\ At(k, "running")
  /\ ledger' = [ledger EXCEPT ![k].state = "open", ![k].until = clock]
  /\ UNCHANGED <<clock, asked, answer>>

\* The holder's response is recorded, for the window that began when the
\* line was taken, and returned to the holder unless it does not learn of it.
Settle(k) ==
  /\ At(k, "running")
  /\ ledger' = [ledger EXCEPT ![k].state = "answered"]
  /\ Tell(ledger[k].by, ledger[k].by) \/ UNCHANGED answer
  /\ UNCHANGED <<clock, asked>>

\* A store without claims writes the first response on a blank line.
SettleFirst(c, k, h) ==
  /\ asked[c] = <<k, h>> /\ ledger[k] = Blank
  /\ WriteLine(k, "answered", h, c)
  /\ Tell(c, c) \/ UNCHANGED answer
  /\ UNCHANGED <<clock, asked>>

\* A later call for the same payload is given the recorded response.
Repeat(c, k) ==
  /\ At(k, "answered") /\ asked[c] = <<k, ledger[k].payload>>
  /\ Tell(c, ledger[k].by)
  /\ UNCHANGED <<clock, ledger, asked>>

\* Without claims: the response that beat a call to the line is gone again
\* when the call looks for it, and the call returns its own.
Unmatched(c, k, h) ==
  /\ asked[c] = <<k, h>> /\ ledger[k] = Blank
  /\ Tell(c, c)
  /\ UNCHANGED <<clock, ledger, asked>>

\* Lines out of their window become blank, all at once.
Retire(K) ==
  /\ \A k \in K : ~At(k, "running") /\ ledger[k] # Blank /\ Over(k)
  /\ ledger' = [k \in Keys |-> IF k \in K THEN Blank ELSE ledger[k]]
  /\ UNCHANGED <<clock, asked, answer>>

\* An operator strikes out a line whose holder will not come back.
Strike(k) ==
  /\ At(k, "running")
  /\ ledger' = [ledger EXCEPT ![k] = Blank]
  /\ UNCHANGED <<clock, asked, answer>>

Tick == clock' = clock + 1 /\ UNCHANGED <<ledger, asked, answer>>

Next ==
  \/ \E k \in Keys : GiveUp(k) \/ Settle(k) \/ Strike(k)
  \/ \E c \in Calls, k \in Keys : Repeat(c, k)
  \/ \E c \in Calls, k \in Keys, h \in Payloads :
       Ask(c, k, h) \/ Take(c, k, h) \/ SettleFirst(c, k, h) \/ Unmatched(c, k, h)
  \/ \E K \in SUBSET Keys : Retire(K)
  \/ Tick

Spec == Init /\ [][Next]_vars
=============================================================================
