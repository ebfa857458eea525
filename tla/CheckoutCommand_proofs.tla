----------------------- MODULE CheckoutCommand_proofs -----------------------
(***************************************************************************)
(* The safety properties of CheckoutCommand, for any number of keys, runs, *)
(* events and claims, and that it implements ParentCheckout.               *)
(*                                                                         *)
(* None is inductive by itself: that a parent has one session to pay holds *)
(* because a command that could have one keeps the guard (CommandInv), and *)
(* gives it up on what a run read of Stripe some steps earlier (RunInv);   *)
(* that reading still holds when it is written because a session's end is  *)
(* final (Grows).                                                          *)
(***************************************************************************)
EXTENDS CheckoutCommand, TLAPS

\* The session every claim of a command asks for.
Own(k) == <<k, 0>>

SessionInv ==
    \A s \in Session : session[s] # "none" \/ s \in asked \cup shown => s = Own(s[1])

\* What fits a command c stored under the key k.
Fits(c, k) ==
    /\ c.state = "none" =>
          c = NoCommand /\ session[Own(k)] = "none" /\ Own(k) \notin asked /\ guard # k
    /\ c.session \in {NoSession, Own(k)}
    /\ c.effect = "session_attached" => c.session = Own(k) /\ session[Own(k)] # "none"
    /\ c.expiry # "not_started" => c.effect = "session_attached"
    /\ c.expiry = "nonpayable_proven" <=> c.state = "terminal_without_payment"
    /\ c.expiry = "nonpayable_proven" => session[Own(k)] = "expired"
    /\ c.state # "none" /\ c.expiry # "nonpayable_proven" => guard = k
    /\ Own(k) \in shown \/ session[Own(k)] = "complete" => c.effect = "session_attached"
CommandInv(k) == Fits(command[k], k)

Changing == {"claimExpiration", "expire", "poll", "record", "supersede"}
Activating == {"bind", "invoice", "subscription", "commit"}

\* What a run knows of its command and of Stripe.
RunInv(r) ==
    r.pc # "idle" =>
        /\ r.key \in Key /\ command[r.key].state # "none"
        /\ r.pc = "attach" => r.session = Own(r.key) /\ session[Own(r.key)] # "none"
        /\ r.pc \in Changing \cup Activating => command[r.key].effect = "session_attached"
        /\ r.pc \in Changing => r.next \in Key
        /\ r.pc = "record" /\ r.seen = "expired" => session[Own(r.key)] = "expired"
        /\ r.pc \in Activating => r.event \in Event /\ session[Own(r.key)] = "complete"

IInv ==
    /\ TypeOK
    /\ SessionInv
    /\ \A k \in Key : CommandInv(k)
    /\ \A p \in Run : RunInv(run[p])
-----------------------------------------------------------------------------
(* What every step keeps, and why the runs that wait are not disturbed.    *)

\* Commands and sessions only go forward.
Grows ==
    \A k \in Key :
        /\ command[k].state # "none" => command'[k].state # "none"
        /\ command[k].effect = "session_attached" => command'[k].effect = "session_attached"
        /\ session[Own(k)] # "none" => session'[Own(k)] # "none"
        /\ session[Own(k)] \in {"complete", "expired"} => session'[Own(k)] = session[Own(k)]

\* The other runs stay where they are, some with a version that is old now.
Rest(R) == \A q \in R : \E b \in BOOLEAN : run'[q] = [run[q] EXCEPT !.current = b]

\* A command's own session is a session.
LEMMA OwnSession ==
    ASSUME NEW k \in Key
    PROVE  /\ Own(k) \in Session /\ Own(k)[1] = k /\ Own(k) # NoSession
           /\ \A j \in Key : Own(j) = Own(k) => j = k
  BY CheckoutAssumption DEF Own, Session, NoSession

\* The run that does nothing, as a record like any other.
LEMMA IdleFacts ==
    /\ IdleRun \in RunRecord
    /\ IdleRun.pc = "idle" /\ IdleRun.next = NoKey /\ IdleRun.seen = "none"
    /\ IdleRun.session = NoSession /\ IdleRun.event = 0 /\ IdleRun.version = 0
  BY DEF IdleRun, RunRecord, Step, Status

\* A command before it is stored, and when it is.
LEMMA NoFacts ==
    /\ NoCommand \in Command
    /\ NoCommand.state = "none" /\ NoCommand.effect = "not_started"
    /\ NoCommand.expiry = "not_started" /\ NoCommand.session = NoSession
  BY CheckoutAssumption DEF NoCommand, Command, State, Effect, Expiry

LEMMA NewFacts ==
    /\ NewCommand \in Command
    /\ NewCommand.state = "intent_recorded" /\ NewCommand.effect = "not_started"
    /\ NewCommand.expiry = "not_started" /\ NewCommand.session = NoSession
  BY NoFacts DEF NewCommand, Command, State

\* A run that goes on leaves the other runs alone.
LEMMA GoesTo ==
    ASSUME TypeOK, NEW p \in Run, NEW r \in RunRecord, Goes(p, r)
    PROVE  run' \in [Run -> RunRecord] /\ run'[p] = r /\ Rest(Run \ {p})
  <1>1. run' \in [Run -> RunRecord] /\ run'[p] = r
    BY DEF TypeOK, Goes
  <1>2. ASSUME NEW q \in Run \ {p} PROVE run'[q] = [run[q] EXCEPT !.current = run[q].current]
                                         /\ run[q].current \in BOOLEAN
    BY DEF TypeOK, Goes, RunRecord
  <1> QED BY <1>1, <1>2 DEF Rest

\* A write changes one command, and the other runs at most in what version they hold.
LEMMA WritesTo ==
    ASSUME TypeOK, NEW p \in Run, run[p].key \in Key,
           NEW c \in Command, NEW r \in RunRecord, Writes(p, c, r)
    PROVE  /\ command' \in [Key -> Command] /\ command'[run[p].key] = c
           /\ \A j \in Key \ {run[p].key} : command'[j] = command[j]
           /\ run' \in [Run -> RunRecord] /\ run'[p] = r /\ Rest(Run \ {p})
  <1>1. command' \in [Key -> Command] /\ command'[run[p].key] = c
        /\ \A j \in Key \ {run[p].key} : command'[j] = command[j]
    BY DEF TypeOK, Writes
  <1>2. ASSUME NEW q \in Run \ {p}
        PROVE  /\ (run[q].current /\ run[q].key # run[p].key) \in BOOLEAN
               /\ run'[q] = [run[q] EXCEPT !.current = run[q].current /\ run[q].key # run[p].key]
    BY DEF Writes
  <1>3. ASSUME NEW q \in Run
        PROVE  (IF q = p THEN r
                ELSE [run[q] EXCEPT !.current = @ /\ run[q].key # run[p].key]) \in RunRecord
    <2>1. run[q] \in RunRecord /\ (run[q].current /\ run[q].key # run[p].key) \in BOOLEAN
      BY DEF TypeOK
    <2>2. \A b \in BOOLEAN : [run[q] EXCEPT !.current = b] \in RunRecord
      BY <2>1 DEF RunRecord
    <2>3. [run[q] EXCEPT !.current = @ /\ run[q].key # run[p].key]
            = [run[q] EXCEPT !.current = (run[q].current /\ run[q].key # run[p].key)]
      OBVIOUS
    <2> QED BY <2>1, <2>2, <2>3
  <1>4. run' \in [Run -> RunRecord] /\ run'[p] = r
    BY <1>3 DEF Writes
  <1> QED BY <1>1, <1>2, <1>4 DEF Rest

\* What a waiting run knows stays true.
LEMMA RestInv ==
    ASSUME IInv, Grows, NEW R \in SUBSET Run, Rest(R), NEW q \in R
    PROVE  RunInv(run[q])'
  <1> PICK b \in BOOLEAN : run'[q] = [run[q] EXCEPT !.current = b]
    BY DEF Rest
  <1> q \in Run /\ run[q] \in RunRecord /\ RunInv(run[q])
    BY DEF IInv, TypeOK
  <1> QED BY DEF Grows, RunInv, RunRecord, Changing, Activating, Own
-----------------------------------------------------------------------------
(* The two kinds of step of a run: one that writes no command, and one that
   writes its own.                                                         *)

\* The parts of the state that no argument here is about.
Aside ==
    /\ owed' \in [Session -> SUBSET Event]
    /\ fact' \in [Key -> [invoice : Event \cup {0}, subscription : Event \cup {0}]]
    /\ receipt' \in [Key -> SUBSET (Event \cup {0})]

\* A step that only shows an attached session, or nothing.
LEMMA QuietStep ==
    ASSUME IInv, NEW p \in Run, NEW r \in RunRecord, Goes(p, r), RunInv(r), Aside,
           UNCHANGED <<command, guard, session, asked>>,
           shown' = shown \/ \E k \in Key : /\ command[k].effect = "session_attached"
                                            /\ shown' = shown \cup {command[k].session}
    PROVE  IInv'
  <1>1. run' \in [Run -> RunRecord] /\ run'[p] = r /\ Rest(Run \ {p})
    BY GoesTo DEF IInv
  <1>2. shown' = shown \/ \E k \in Key : /\ command[k].effect = "session_attached"
                                         /\ shown' = shown \cup {Own(k)}
    BY DEF IInv, CommandInv, Fits
  <1>3. TypeOK'
    BY <1>1, <1>2, OwnSession DEF IInv, TypeOK, Aside
  <1>4. SessionInv'
    BY <1>2, OwnSession DEF IInv, SessionInv
  <1>5. ASSUME NEW j \in Key PROVE CommandInv(j)'
    BY <1>2, OwnSession DEF IInv, CommandInv, Fits
  <1>6. Grows
    BY DEF Grows
  <1>7. RunInv(run[p])'
    BY <1>1 DEF RunInv
  <1> QED BY <1>1, <1>3, <1>4, <1>5, <1>6, <1>7, RestInv DEF IInv

\* A step that writes the run's command c, and may show its session.
LEMMA WriteStep ==
    ASSUME IInv, NEW p \in Run, run[p].pc # "idle",
           NEW c \in Command, NEW r \in RunRecord, Writes(p, c, r), Aside,
           UNCHANGED <<guard, session, asked>>,
           c.state # "none", Fits(c, run[p].key),
           command[run[p].key].effect = "session_attached" => c.effect = "session_attached",
           \/ shown' = shown
           \/ c.effect = "session_attached" /\ shown' = shown \cup {Own(run[p].key)},
           RunInv(r)'
    PROVE  IInv'
  <1> DEFINE k == run[p].key
  <1>1. k \in Key
    BY DEF IInv, RunInv
  <1>2. /\ command' \in [Key -> Command] /\ command'[k] = c
        /\ \A j \in Key \ {k} : command'[j] = command[j]
        /\ run' \in [Run -> RunRecord] /\ run'[p] = r /\ Rest(Run \ {p})
    BY <1>1, WritesTo DEF IInv
  <1>3. TypeOK'
    BY <1>1, <1>2, OwnSession DEF IInv, TypeOK, Aside
  <1>4. SessionInv'
    BY <1>1, OwnSession DEF IInv, SessionInv
  <1>5. ASSUME NEW j \in Key PROVE CommandInv(j)'
    <2>1. CASE j = k
      BY <1>2, <2>1 DEF CommandInv, Fits
    <2>2. CASE j # k
      BY <1>1, <1>2, <2>2, OwnSession DEF IInv, CommandInv, Fits
    <2> QED BY <2>1, <2>2
  <1>6. Grows
    BY <1>1, <1>2 DEF Grows
  <1>7. RunInv(run[p])'
    BY <1>2 DEF RunInv
  <1> QED BY <1>2, <1>3, <1>4, <1>5, <1>6, <1>7, RestInv DEF IInv

\* A run that ends knows nothing.
LEMMA IdleInv == RunInv(IdleRun) /\ RunInv(IdleRun)'
  BY IdleFacts DEF RunInv
-----------------------------------------------------------------------------
(* The world around the runs.                                              *)

\* A step without a run.
LEMMA WorldRest ==
    ASSUME TypeOK, UNCHANGED run
    PROVE  Rest(Run)
  <1> SUFFICES ASSUME NEW q \in Run PROVE run'[q] = [run[q] EXCEPT !.current = run[q].current]
                                          /\ run[q].current \in BOOLEAN
    BY DEF Rest
  <1> QED BY DEF TypeOK, RunRecord

\* A session is created only for a command there is, and is none of another's.
LEMMA SessionCreatedStep ==
    ASSUME IInv, NEW s \in Session, SessionCreated(s)
    PROVE  IInv'
  <1>1. TypeOK'
    BY DEF IInv, TypeOK, SessionCreated, billing, Status
  <1>2. SessionInv'
    BY DEF IInv, TypeOK, SessionInv, SessionCreated
  <1>3. ASSUME NEW k \in Key PROVE CommandInv(k)'
    BY OwnSession DEF IInv, TypeOK, CommandInv, Fits, SessionCreated
  <1>4. Grows
    BY OwnSession DEF IInv, TypeOK, Grows, SessionCreated
  <1> QED BY <1>1, <1>2, <1>3, <1>4, WorldRest, RestInv DEF IInv, SessionCreated

\* A session that expires was open.
LEMMA SessionExpiresStep ==
    ASSUME IInv, NEW s \in Session, SessionExpires(s)
    PROVE  IInv'
  <1>1. TypeOK'
    BY DEF IInv, TypeOK, SessionExpires, billing, Status
  <1>2. SessionInv'
    BY DEF IInv, TypeOK, SessionInv, SessionExpires
  <1>3. ASSUME NEW k \in Key PROVE CommandInv(k)'
    BY OwnSession DEF IInv, TypeOK, CommandInv, Fits, SessionExpires
  <1>4. Grows
    BY OwnSession DEF IInv, TypeOK, Grows, SessionExpires
  <1> QED BY <1>1, <1>2, <1>3, <1>4, WorldRest, RestInv DEF IInv, SessionExpires

\* What is paid was open, so it was not recorded as ended.
LEMMA PayStep ==
    ASSUME IInv, NEW s \in Session, Pay(s)
    PROVE  IInv'
  <1>1. TypeOK'
    BY DEF IInv, TypeOK, Pay, billing, Status
  <1>2. SessionInv'
    BY DEF IInv, TypeOK, SessionInv, Pay
  <1>3. ASSUME NEW k \in Key PROVE CommandInv(k)'
    BY OwnSession DEF IInv, TypeOK, CommandInv, Fits, Pay
  <1>4. Grows
    BY OwnSession DEF IInv, TypeOK, Grows, Pay
  <1> QED BY <1>1, <1>2, <1>3, <1>4, WorldRest, RestInv DEF IInv, Pay

\* The end of a lease changes nothing else.
LEMMA LeaseEndsStep ==
    ASSUME IInv, NEW k \in Key, LeaseEnds(k)
    PROVE  IInv'
  <1> DEFINE c == [command[k] EXCEPT !.leased = FALSE]
  <1>1. command[k] \in Command /\ command[k] # NoCommand
    BY DEF IInv, TypeOK, LeaseEnds, NoCommand
  <1>2. c \in Command /\ c.state = command[k].state /\ c.effect = command[k].effect
        /\ c.session = command[k].session /\ c.expiry = command[k].expiry
    BY <1>1 DEF Command
  <1>3. command' \in [Key -> Command] /\ command'[k] = c
        /\ \A j \in Key \ {k} : command'[j] = command[j]
    BY <1>2 DEF IInv, TypeOK, LeaseEnds
  <1>4. TypeOK'
    BY <1>3 DEF IInv, TypeOK, LeaseEnds, stripe, billing
  <1>5. SessionInv'
    BY DEF IInv, SessionInv, LeaseEnds, stripe
  <1>6. ASSUME NEW j \in Key PROVE CommandInv(j)'
    BY <1>1, <1>2, <1>3 DEF IInv, CommandInv, Fits, LeaseEnds, stripe
  <1>7. Grows
    BY <1>2, <1>3 DEF Grows, LeaseEnds, stripe
  <1> QED BY <1>4, <1>5, <1>6, <1>7, WorldRest, RestInv DEF IInv, LeaseEnds
-----------------------------------------------------------------------------
(* The steps of a request that starts a checkout or rechecks one.          *)

\* What does not change of Stripe and of the facts is still of its type.
LEMMA NothingAside == TypeOK /\ UNCHANGED <<owed, fact, receipt>> => Aside
  BY DEF TypeOK, Aside

\* A run, its command, and that the command is stored.
LEMMA Running ==
    ASSUME IInv, NEW p \in Run, run[p].pc # "idle"
    PROVE  /\ run[p] \in RunRecord /\ RunInv(run[p]) /\ run[p].key \in Key
           /\ Mine(p) \in Command /\ Mine(p) = command[run[p].key]
           /\ Mine(p).state # "none" /\ Fits(Mine(p), run[p].key)
  BY DEF IInv, TypeOK, RunInv, CommandInv, Mine

\* A checkout of a key that is new takes the free guard.
LEMMA RegisterStep ==
    ASSUME IInv, NEW p \in Run, NEW k \in Key, Register(p, k)
    PROVE  IInv'
  <1> DEFINE r == [IdleRun EXCEPT !.pc = "claim", !.op = "checkout", !.key = k]
  <1>r. r \in RunRecord /\ r.pc = "claim" /\ r.key = k
    BY IdleFacts DEF RunRecord, Step
  <1>a. Aside
    BY NothingAside DEF IInv, Register, stripe, billing
  <1>1. CASE ~Absent(k) /\ UNCHANGED <<command, guard>>
    <2>1. shown' = shown \/ \E j \in Key : /\ command[j].effect = "session_attached"
                                           /\ shown' = shown \cup {command[j].session}
      BY <1>1 DEF Register, Absent, Shows, Answerable
    <2>2. CASE Ends(p)
      BY <1>a, <1>1, <2>1, <2>2, IdleFacts, IdleInv, QuietStep DEF Ends, Register, stripe
    <2>3. CASE Goes(p, r)
      <3>1. RunInv(r)
        BY <1>r, <1>1 DEF RunInv, Absent, Changing, Activating
      <3> QED BY <1>r, <1>a, <1>1, <2>1, <2>3, <3>1, QuietStep DEF Register, stripe
    <2> QED BY <1>1, <2>2, <2>3 DEF Register, Absent
  <1>2. CASE /\ Absent(k) /\ GuardFree /\ guard' = k /\ UNCHANGED shown /\ Goes(p, r)
             /\ command' = [command EXCEPT ![k] = NewCommand]
    <2>1. run' \in [Run -> RunRecord] /\ run'[p] = r /\ Rest(Run \ {p})
      BY <1>r, <1>2, GoesTo DEF IInv
    <2>2. command' \in [Key -> Command] /\ command'[k] = NewCommand
          /\ \A j \in Key \ {k} : command'[j] = command[j]
      BY <1>2, NewFacts DEF IInv, TypeOK
    <2>3. TypeOK'
      BY <1>a, <1>2, <2>1, <2>2 DEF IInv, TypeOK, Aside, Register, stripe
    <2>4. SessionInv'
      BY <1>2 DEF IInv, SessionInv, Register, stripe
    <2>5. ASSUME NEW j \in Key PROVE CommandInv(j)'
      <3>1. CASE j = k
        <4>1. session[Own(k)] = "none" /\ Own(k) \notin shown
          BY <1>2, NoFacts DEF IInv, CommandInv, Fits, Absent
        <4> QED BY <1>2, <2>2, <3>1, <4>1, NewFacts DEF CommandInv, Fits, Register, stripe
      <3>2. CASE j # k
        <4>1. command[j].state = "none" \/ command[j].expiry = "nonpayable_proven"
          BY <1>2, CheckoutAssumption DEF IInv, CommandInv, Fits, GuardFree
        <4> QED BY <1>2, <2>2, <3>2, <4>1 DEF IInv, CommandInv, Fits, Register, stripe
      <3> QED BY <3>1, <3>2
    <2>6. Grows
      BY <1>2, <2>2, NewFacts, NoFacts DEF IInv, CommandInv, Fits, Grows, Absent, Register, stripe
    <2>7. RunInv(run[p])'
      BY <1>r, <2>1, <2>2, NewFacts DEF RunInv, Changing, Activating
    <2> QED BY <2>1, <2>3, <2>4, <2>5, <2>6, <2>7, RestInv DEF IInv
  <1> QED BY <1>1, <1>2 DEF Register

\* A recheck writes nothing yet.
LEMMA RecheckStep ==
    ASSUME IInv, NEW p \in Run, NEW k \in Key, Recheck(p, k)
    PROVE  IInv'
  <1> DEFINE r == [IdleRun EXCEPT !.pc = "claim", !.op = "recheck", !.key = k]
  <1>1. r \in RunRecord /\ r.pc = "claim" /\ r.key = k
    BY IdleFacts DEF RunRecord, Step
  <1>2. RunInv(r)
    BY <1>1 DEF RunInv, Recheck, Changing, Activating
  <1>3. Aside
    BY NothingAside DEF IInv, Recheck, stripe, billing
  <1> QED BY <1>1, <1>2, <1>3, QuietStep DEF Recheck, stripe

\* A claim is made of a command to which nothing is attached.
LEMMA ClaimStep ==
    ASSUME IInv, NEW p \in Run, Claim(p)
    PROVE  IInv'
  <1>r. run[p].pc # "idle" /\ run[p].pc = "claim"
    BY DEF Claim
  <1>a. Aside
    BY NothingAside DEF IInv, Claim, stripe, billing
  <1>1. CASE Mine(p).effect = "session_attached"
    <2>1. shown' = shown \/ \E k \in Key : /\ command[k].effect = "session_attached"
                                           /\ shown' = shown \cup {command[k].session}
      BY <1>r, <1>1, Running DEF Claim, Shows, Answerable
    <2> QED BY <1>a, <1>1, <2>1, IdleFacts, IdleInv, QuietStep DEF Claim, Ends, stripe
  <1>2. CASE Mine(p).effect # "session_attached" /\ Mine(p).leased
    <2>1. CASE Ends(p)
      BY <1>a, <1>2, <2>1, IdleFacts, IdleInv, QuietStep DEF Claim, Ends, stripe
    <2>2. CASE Goes(p, [run[p] EXCEPT !.pc = "await"])
      <3> DEFINE r == [run[p] EXCEPT !.pc = "await"]
      <3>1. r \in RunRecord /\ r.pc = "await" /\ r.key = run[p].key
        BY <1>r, Running DEF RunRecord, Step
      <3>2. RunInv(r)
        BY <1>r, <3>1, Running DEF RunInv, Changing, Activating
      <3> QED BY <1>a, <1>2, <2>2, <3>1, <3>2, QuietStep DEF Claim, stripe
    <2> QED BY <1>2, <2>1, <2>2 DEF Claim
  <1>3. CASE Mine(p).effect # "session_attached" /\ ~Mine(p).leased
    <2> DEFINE k == run[p].key
               c == Claimed(Mine(p))
               on == IF run[p].op = "checkout" THEN "create" ELSE "find"
    <2>1. Mine(p) \in Command /\ Mine(p).generation + 1 \in 0..MaxClaims
      BY <1>r, <1>3, Running, CheckoutAssumption DEF Claim, Command
    <2>2. /\ c \in Command /\ c.state = "provider_create_pending" /\ c.effect = "create_claimed"
          /\ c.session = Mine(p).session /\ c.expiry = Mine(p).expiry
      BY <2>1 DEF Claimed, Command, State, Effect
    <2>3. PICK r \in RunRecord : /\ r = [run[p] EXCEPT !.pc = on, !.current = TRUE]
                                 /\ r.pc \in {"create", "find"} /\ r.key = k
      <3>1. run[p] \in RunRecord
        BY <1>r, Running
      <3>2. PICK pc \in Step : pc = on /\ pc \in {"create", "find"}
        BY DEF Step
      <3>3. [run[p] EXCEPT !.pc = pc, !.current = TRUE] \in RunRecord
        BY <3>1, <3>2 DEF RunRecord
      <3> QED BY <3>1, <3>2, <3>3 DEF RunRecord
    <2>4. Writes(p, c, r) /\ UNCHANGED <<guard, session, asked, shown>>
      BY <1>3, <2>3 DEF Claim, stripe
    <2>5. Fits(c, k)
      BY <1>r, <1>3, <2>2, Running DEF Fits
    <2>6. command'[k] = c
      BY <1>r, <2>2, <2>3, <2>4, Running, WritesTo DEF IInv
    <2>7. RunInv(r)'
      BY <1>r, <2>2, <2>3, <2>6, Running DEF RunInv, Changing, Activating
    <2> QED BY <1>r, <1>a, <1>3, <2>2, <2>3, <2>4, <2>5, <2>7, Running, WriteStep
  <1> QED BY <1>1, <1>2, <1>3 DEF Claim

\* Who waits for another run's session is shown an attached one.
LEMMA AwaitStep ==
    ASSUME IInv, NEW p \in Run, Await(p)
    PROVE  IInv'
  <1>1. \E k \in Key : /\ command[k].effect = "session_attached"
                       /\ shown' = shown \cup {command[k].session}
    BY Running DEF Await, Shows, Answerable
  <1>2. Aside
    BY NothingAside DEF IInv, Await, stripe, billing
  <1> QED BY <1>1, <1>2, IdleFacts, IdleInv, QuietStep DEF Await, Ends, stripe

\* A session is created under the key of a stored command.
LEMMA CreateStep ==
    ASSUME IInv, NEW p \in Run, Create(p)
    PROVE  IInv'
  <1> DEFINE k == run[p].key
             s == ProviderKey(run[p].key, Mine(p))
             on == [run[p] EXCEPT !.pc = "attach", !.session = s]
             off == [run[p] EXCEPT !.pc = "unknown"]
  <1>1. run[p].pc = "create" /\ run[p].pc # "idle"
    BY DEF Create
  <1>2. s = Own(k) /\ k \in Key /\ s \in Session /\ asked' = asked \cup {s}
    BY <1>1, Running, OwnSession DEF Create, ProviderKey, Own
  <1>3. \/ session' = [session EXCEPT ![s] = IF @ = "none" THEN "open" ELSE @] /\ Goes(p, on)
        \/ session' = session /\ Goes(p, off)
    BY DEF Create
  <1>4. /\ on \in RunRecord /\ on.pc = "attach" /\ on.key = k /\ on.session = s
        /\ off \in RunRecord /\ off.pc = "unknown" /\ off.key = k
    BY <1>1, <1>2, Running DEF RunRecord, Step
  <1>5. /\ run' \in [Run -> RunRecord] /\ Rest(Run \ {p})
        /\ run'[p].pc \in {"attach", "unknown"} /\ run'[p].key = k
        /\ run'[p].pc = "attach" => run'[p].session = s /\ session'[s] # "none"
    <2>1. CASE Goes(p, on) /\ session' = [session EXCEPT ![s] = IF @ = "none" THEN "open" ELSE @]
      BY <1>2, <1>4, <2>1, GoesTo DEF IInv, TypeOK
    <2>2. CASE Goes(p, off)
      BY <1>4, <2>2, GoesTo DEF IInv
    <2> QED BY <1>3, <2>1, <2>2
  <1>6. /\ session' \in [Session -> Status]
        /\ \A t \in Session : session'[t] = session[t] \/ (t = s /\ session[t] = "none")
    BY <1>2, <1>3 DEF IInv, TypeOK, Status
  <1>7. TypeOK'
    BY <1>2, <1>5, <1>6 DEF IInv, TypeOK, Create, billing
  <1>8. SessionInv'
    BY <1>2, <1>6, OwnSession DEF IInv, SessionInv, Create
  <1>9. ASSUME NEW j \in Key PROVE CommandInv(j)'
    <2>1. command[k].state # "none"
      BY <1>1, Running
    <2>2. CommandInv(j) /\ CommandInv(k) /\ Own(j) \in Session
      BY <1>2, OwnSession DEF IInv
    <2>3. j = k \/ Own(j) # s
      BY <1>2, OwnSession
    <2> QED BY <1>2, <1>6, <2>1, <2>2, <2>3 DEF CommandInv, Fits, Create
  <1>10. Grows
    BY <1>6, OwnSession DEF Grows, Create
  <1>11. RunInv(run[p])'
    <2>1. command[k].state # "none" /\ command' = command
      BY <1>1, Running DEF Create
    <2> QED BY <1>2, <1>5, <2>1 DEF RunInv, Changing, Activating, Own
  <1> QED BY <1>5, <1>7, <1>8, <1>9, <1>10, <1>11, RestInv DEF IInv

\* A recheck finds only the session of its command.
LEMMA FindStep ==
    ASSUME IInv, NEW p \in Run, Find(p)
    PROVE  IInv'
  <1>1. run[p].pc = "find" /\ run[p].pc # "idle"
    BY DEF Find
  <1>2. Aside
    BY NothingAside DEF IInv, Find, stripe, billing
  <1>3. CASE Goes(p, [run[p] EXCEPT !.pc = "unknown"])
    <2> DEFINE r == [run[p] EXCEPT !.pc = "unknown"]
    <2>1. r \in RunRecord /\ r.pc = "unknown" /\ r.key = run[p].key
      BY <1>1, Running DEF RunRecord, Step
    <2>2. RunInv(r)
      BY <1>1, <2>1, Running DEF RunInv, Changing, Activating
    <2> QED BY <1>2, <1>3, <2>1, <2>2, QuietStep DEF Find, stripe
  <1>4. ASSUME NEW s \in Session, s[1] = run[p].key, session[s] # "none",
               Goes(p, [run[p] EXCEPT !.pc = "attach", !.session = s])
        PROVE  IInv'
    <2> DEFINE r == [run[p] EXCEPT !.pc = "attach", !.session = s]
    <2>1. r \in RunRecord /\ r.pc = "attach" /\ r.key = run[p].key /\ r.session = s
      BY <1>1, Running DEF RunRecord, Step
    <2>2. s = Own(run[p].key)
      BY <1>4 DEF IInv, SessionInv
    <2>3. RunInv(r)
      BY <1>1, <1>4, <2>1, <2>2, Running DEF RunInv, Changing, Activating
    <2> QED BY <1>2, <1>4, <2>1, <2>3, QuietStep DEF Find, stripe
  <1> QED BY <1>3, <1>4 DEF Find

\* The session that is attached is the command's own, and the only one shown.
LEMMA AttachStep ==
    ASSUME IInv, NEW p \in Run, Attach(p)
    PROVE  IInv'
  <1>r. run[p].pc = "attach" /\ run[p].pc # "idle"
    BY DEF Attach
  <1>a. Aside
    BY NothingAside DEF IInv, Attach, stripe, billing
  <1>1. CASE Mine(p).effect = "session_attached"
    <2>1. shown' = shown \/ \E k \in Key : /\ command[k].effect = "session_attached"
                                           /\ shown' = shown \cup {command[k].session}
      BY <1>r, <1>1, Running DEF Attach, Shows, Answerable
    <2> QED BY <1>a, <1>1, <2>1, IdleFacts, IdleInv, QuietStep DEF Attach, Ends, stripe
  <1>2. CASE Mine(p).effect # "session_attached" /\ Refused(p) /\ UNCHANGED command
    BY <1>a, <1>2, IdleFacts, IdleInv, QuietStep DEF Attach, Refused, Ends, stripe
  <1>3. CASE Mine(p).effect = "create_claimed" /\ Writes(p, Attached(p), IdleRun)
    <2> DEFINE k == run[p].key
               c == Attached(p)
    <2>1. run[p].session = Own(k) /\ session[Own(k)] # "none" /\ Own(k) \in Session
      BY <1>r, Running, OwnSession DEF RunInv
    <2>2. /\ c \in Command /\ c.state = "provider_session_open" /\ c.effect = "session_attached"
          /\ c.session = Own(k) /\ c.expiry = Mine(p).expiry
      BY <1>r, <2>1, Running DEF Attached, Command, State, Effect
    <2>3. Fits(c, k)
      BY <1>r, <1>3, <2>1, <2>2, Running DEF Fits
    <2>4. shown' = shown \/ shown' = shown \cup {Own(k)}
      BY <1>3, <2>2 DEF Attach, Shows, Answerable, Refused
    <2> QED BY <1>r, <1>a, <1>3, <2>2, <2>3, <2>4, IdleFacts, IdleInv, WriteStep DEF Attach, stripe
  <1> QED BY <1>1, <1>2, <1>3 DEF Attach

\* An outcome is unknown only of a command to which nothing is attached.
LEMMA MarkUnknownStep ==
    ASSUME IInv, NEW p \in Run, MarkUnknown(p)
    PROVE  IInv'
  <1> DEFINE k == run[p].key
             c == [Mine(p) EXCEPT !.effect = "provider_outcome_unknown",
                                  !.state = "operator_attention_required"]
  <1>1. run[p].pc # "idle" /\ Mine(p).effect = "create_claimed" /\ Writes(p, c, IdleRun)
    BY DEF MarkUnknown
  <1>2. /\ c \in Command /\ c.state = "operator_attention_required"
        /\ c.effect = "provider_outcome_unknown"
        /\ c.session = Mine(p).session /\ c.expiry = Mine(p).expiry
    BY <1>1, Running DEF Command, State, Effect
  <1>3. Fits(c, k)
    BY <1>1, <1>2, Running DEF Fits
  <1>4. Aside
    BY NothingAside DEF IInv, MarkUnknown, stripe, billing
  <1> QED BY <1>1, <1>2, <1>3, <1>4, Running, IdleFacts, IdleInv, WriteStep DEF MarkUnknown, stripe
-----------------------------------------------------------------------------
(* The steps of a change of plan.                                          *)

\* A change begins with what Stripe says of the attached session.
LEMMA ChangeStep ==
    ASSUME IInv, NEW p \in Run, NEW k \in Key, NEW next \in Key, Change(p, k, next)
    PROVE  IInv'
  <1>1. PICK seen \in Retrieved(command[k].session) :
             Goes(p, [IdleRun EXCEPT !.pc = IF seen = "open" THEN "claimExpiration" ELSE "record",
                                     !.op = "change", !.key = k, !.next = next, !.seen = seen])
    BY DEF Change
  <1> DEFINE on == IF seen = "open" THEN "claimExpiration" ELSE "record"
  <1>2. CommandInv(k) /\ command[k].effect = "session_attached"
        /\ seen \in {session[Own(k)], "unknown"} /\ session \in [Session -> Status]
    BY <1>1 DEF IInv, TypeOK, CommandInv, Fits, Change, Retrieved
  <1>3. seen \in Status \cup {"unknown"} /\ on \in {"claimExpiration", "record"}
    BY <1>2, OwnSession
  <1>4. PICK r \in RunRecord :
            /\ r = [IdleRun EXCEPT !.pc = on, !.op = "change", !.key = k, !.next = next,
                                   !.seen = seen]
            /\ r.pc \in {"claimExpiration", "record"} /\ r.key = k /\ r.next = next
            /\ r.seen = seen
    <2>1. PICK pc \in Step : pc = on /\ pc \in {"claimExpiration", "record"}
      BY <1>3 DEF Step
    <2> DEFINE r == [IdleRun EXCEPT !.pc = pc, !.op = "change", !.key = k, !.next = next,
                                    !.seen = seen]
    <2>2. r \in RunRecord /\ r.pc = pc /\ r.key = k /\ r.next = next /\ r.seen = seen
      BY <1>3, <2>1, IdleFacts DEF RunRecord
    <2>3. r = [IdleRun EXCEPT !.pc = on, !.op = "change", !.key = k, !.next = next,
                              !.seen = seen]
      BY <2>1
    <2> HIDE DEF r, on
    <2> QED BY <2>1, <2>2, <2>3
  <1>5. RunInv(r)
    <2>1. command[k].state # "none"
      BY <1>2, NoFacts DEF CommandInv, Fits
    <2> QED BY <1>2, <1>4, <2>1 DEF RunInv, Changing, Activating
  <1>6. Aside
    BY NothingAside DEF IInv, Change, stripe, billing
  <1> QED BY <1>1, <1>4, <1>5, <1>6, QuietStep DEF Change, stripe

\* A run of a change that goes on to another step of it.
LEMMA ChangeGoesOn ==
    ASSUME IInv, NEW p \in Run, run[p].pc \in Changing,
           NEW r \in RunRecord, r.pc \in Changing, r.key = run[p].key, r.next = run[p].next,
           r.pc = "record" /\ r.seen = "expired" => session[Own(r.key)] = "expired"
    PROVE  RunInv(r)
  <1>1. run[p].pc # "idle"
    BY DEF Changing
  <1> QED BY <1>1, Running DEF RunInv, Changing, Activating

\* An expiration is claimed of an attached session, or an earlier one's outcome is used.
LEMMA ClaimExpirationStep ==
    ASSUME IInv, NEW p \in Run, ClaimExpiration(p)
    PROVE  IInv'
  <1> DEFINE k == run[p].key
  <1>r. run[p].pc = "claimExpiration" /\ run[p].pc # "idle" /\ run[p].pc \in Changing
    BY DEF ClaimExpiration, Changing
  <1>a. Aside
    BY NothingAside DEF IInv, ClaimExpiration, stripe, billing
  <1>2. CASE Mine(p).expiry = "nonpayable_proven"
    <2>1. session[Own(k)] = "expired"
      BY <1>r, <1>2, Running DEF Fits
    <2>2. run[p] \in RunRecord
      BY <1>r, Running
    <2> DEFINE r == [run[p] EXCEPT !.pc = "record", !.seen = "expired"]
    <2>3. r \in RunRecord /\ r.pc = "record" /\ r.key = k /\ r.next = run[p].next
      BY <2>2 DEF RunRecord, Step, Status
    <2>4. RunInv(r)
      BY <1>r, <2>1, <2>3, ChangeGoesOn DEF Changing
    <2> QED BY <1>a, <1>2, <2>3, <2>4, QuietStep DEF ClaimExpiration, stripe
  <1>3. CASE Mine(p).expiry = "expire_claimed"
    <2>1. run[p] \in RunRecord
      BY <1>r, Running
    <2> DEFINE r == [run[p] EXCEPT !.pc = "poll"]
    <2>2. r \in RunRecord /\ r.pc = "poll" /\ r.key = k /\ r.next = run[p].next
      BY <2>1 DEF RunRecord, Step
    <2>3. RunInv(r)
      BY <1>r, <2>2, ChangeGoesOn DEF Changing
    <2> QED BY <1>a, <1>3, <2>2, <2>3, QuietStep DEF ClaimExpiration, stripe
  <1>4. CASE Mine(p).expiry \in {"payment_reconciliation_required", "expiration_outcome_unknown"}
    BY <1>a, <1>4, IdleFacts, IdleInv, QuietStep DEF ClaimExpiration, Ends, stripe
  <1>5. CASE Mine(p).expiry = "not_started"
    <2> DEFINE c == [Mine(p) EXCEPT !.expiry = "expire_claimed"]
    <2>1. /\ c \in Command /\ c.state = Mine(p).state /\ c.effect = Mine(p).effect
          /\ c.session = Mine(p).session /\ c.expiry = "expire_claimed" /\ c.state # "none"
      BY <1>r, Running DEF Command, Expiry
    <2>2. PICK r \in RunRecord : /\ r = [run[p] EXCEPT !.pc = "expire"]
                                 /\ r.pc = "expire" /\ r.key = k /\ r.next = run[p].next
      <3> DEFINE x == [run[p] EXCEPT !.pc = "expire"]
      <3>1. run[p] \in RunRecord
        BY <1>r, Running
      <3>2. x \in RunRecord /\ x.pc = "expire" /\ x.key = k /\ x.next = run[p].next
        BY <3>1 DEF RunRecord, Step
      <3>3. x = [run[p] EXCEPT !.pc = "expire"]
        OBVIOUS
      <3> HIDE DEF x
      <3> QED BY <3>2, <3>3
    <2>3. Writes(p, c, r) /\ UNCHANGED <<guard, session, asked, shown>>
      BY <1>5, <2>2 DEF ClaimExpiration, stripe
    <2>4. Mine(p).effect = "session_attached" /\ run[p].next \in Key /\ k \in Key
      BY <1>r, Running DEF RunInv, Changing
    <2>5. Fits(c, k)
      BY <1>r, <1>5, <2>1, <2>4, Running DEF Fits
    <2>6. command'[k] = c
      BY <1>r, <2>1, <2>2, <2>3, Running, WritesTo DEF IInv
    <2>7. RunInv(r)'
      <3> HIDE DEF c
      <3> QED BY <2>1, <2>2, <2>4, <2>6 DEF RunInv, Changing, Activating
    <2> QED BY <1>r, <1>a, <2>1, <2>2, <2>3, <2>4, <2>5, <2>7, Running, WriteStep
  <1> QED BY <1>2, <1>3, <1>4, <1>5 DEF ClaimExpiration

\* What expires at the code's wish was open.
LEMMA ExpireStep ==
    ASSUME IInv, NEW p \in Run, Expire(p)
    PROVE  IInv'
  <1> DEFINE k == run[p].key
             s == Mine(p).session
  <1>1. run[p].pc = "expire" /\ run[p].pc # "idle" /\ run[p].pc \in Changing
    BY DEF Expire, Changing
  <1>2. /\ Mine(p).effect = "session_attached" /\ run[p].next \in Key
        /\ s = Own(k) /\ k \in Key /\ s \in Session
    BY <1>1, Running, OwnSession DEF RunInv, Changing, Fits
  <1>3. /\ session' \in [Session -> Status]
        /\ \A t \in Session : session'[t] = session[t]
                              \/ (t = s /\ session[t] = "open" /\ session'[t] = "expired")
    BY <1>2 DEF IInv, TypeOK, Status, Expire
  <1> DEFINE r == [run[p] EXCEPT !.pc = "poll"]
  <1>4. r \in RunRecord /\ r.pc = "poll" /\ r.key = k /\ r.next = run[p].next
    <2>1. run[p] \in RunRecord
      BY <1>1, Running
    <2> QED BY <2>1 DEF RunRecord, Step
  <1>5. run' \in [Run -> RunRecord] /\ run'[p] = r /\ Rest(Run \ {p})
    BY <1>4, GoesTo DEF IInv, Expire
  <1>6. TypeOK'
    BY <1>3, <1>5 DEF IInv, TypeOK, Expire, billing
  <1>7. SessionInv'
    BY <1>3 DEF IInv, SessionInv, Expire
  <1>8. ASSUME NEW j \in Key PROVE CommandInv(j)'
    <2>1. CommandInv(j) /\ Own(j) \in Session
      BY OwnSession DEF IInv
    <2> QED BY <1>3, <2>1 DEF CommandInv, Fits, Expire
  <1>9. Grows
    BY <1>3, OwnSession DEF Grows, Expire
  <1>10. RunInv(run[p])'
    <2>1. command' = command /\ Mine(p) = command[k] /\ command[k].state # "none"
      BY <1>1, Running DEF Expire
    <2> QED BY <1>2, <1>4, <1>5, <2>1 DEF RunInv, Changing, Activating
  <1> QED BY <1>5, <1>6, <1>7, <1>8, <1>9, <1>10, RestInv DEF IInv

\* The last look at the session is what the run goes on with.
LEMMA PollStep ==
    ASSUME IInv, NEW p \in Run, Poll(p)
    PROVE  IInv'
  <1>1. run[p].pc = "poll" /\ run[p].pc # "idle" /\ run[p].pc \in Changing
    BY DEF Poll, Changing
  <1>2. PICK seen \in Retrieved(Mine(p).session) \ {"open"} :
             Goes(p, [run[p] EXCEPT !.pc = "record", !.seen = seen])
    BY DEF Poll
  <1>3. Mine(p).session = Own(run[p].key) /\ Own(run[p].key) \in Session
    BY <1>1, Running, OwnSession DEF RunInv, Changing, Fits
  <1>4. /\ seen \in Status \cup {"unknown"}
        /\ seen = "expired" => session[Own(run[p].key)] = "expired"
    BY <1>2, <1>3 DEF IInv, TypeOK, Retrieved
  <1>5. Aside
    BY NothingAside DEF IInv, Poll, stripe, billing
  <1> DEFINE r == [run[p] EXCEPT !.pc = "record", !.seen = seen]
  <1>6. /\ r \in RunRecord /\ r.pc = "record" /\ r.key = run[p].key
        /\ r.next = run[p].next /\ r.seen = seen
    <2>1. run[p] \in RunRecord
      BY <1>1, Running
    <2> QED BY <1>4, <2>1 DEF RunRecord, Step
  <1>7. RunInv(r)
    BY <1>1, <1>4, <1>6, ChangeGoesOn DEF Changing
  <1> QED BY <1>2, <1>5, <1>6, <1>7, QuietStep DEF Poll, stripe

\* An end without payment is recorded on what Stripe said, and Stripe's word is final.
LEMMA RecordStep ==
    ASSUME IInv, NEW p \in Run, Record(p)
    PROVE  IInv'
  <1> DEFINE k == run[p].key
             x == [run[p] EXCEPT !.pc = "supersede"]
  <1>r. run[p].pc = "record" /\ run[p].pc # "idle" /\ run[p].pc \in Changing
    BY DEF Record, Changing
  <1>a. Aside
    BY NothingAside DEF IInv, Record, stripe, billing
  <1>1. /\ x \in RunRecord /\ x.pc = "supersede" /\ x.key = k /\ x.next = run[p].next
        /\ x = [run[p] EXCEPT !.pc = "supersede"]
    <2>1. run[p] \in RunRecord
      BY <1>r, Running
    <2> QED BY <2>1 DEF RunRecord, Step
  <1>2. Mine(p).effect = "session_attached" /\ run[p].next \in Key /\ k \in Key
    BY <1>r, Running DEF RunInv, Changing
  <1>3. CASE Mine(p).expiry \notin {"not_started", "expire_claimed"}
    <2>1. UNCHANGED <<command, guard, session, asked, shown>>
      BY <1>3 DEF Record, stripe
    <2>2. CASE Goes(p, IdleRun)
      BY <1>a, <2>1, <2>2, IdleFacts, IdleInv, QuietStep
    <2>3. CASE Goes(p, x)
      <3>1. RunInv(x)
        BY <1>r, <1>1, ChangeGoesOn DEF Changing
      <3> QED BY <1>1, <1>a, <2>1, <2>3, <3>1, QuietStep
    <2> QED BY <1>3, <2>2, <2>3 DEF Record
  <1>4. CASE Mine(p).expiry \in {"not_started", "expire_claimed"}
    <2> DEFINE c == Recorded(Mine(p), run[p].seen)
    <2>1. /\ c \in Command /\ c.effect = "session_attached" /\ c.session = Mine(p).session
          /\ c.expiry \in {"nonpayable_proven", "payment_reconciliation_required",
                           "expiration_outcome_unknown"}
          /\ c.state # "none"
          /\ c.expiry = "nonpayable_proven" <=> run[p].seen = "expired"
          /\ c.expiry = "nonpayable_proven" <=> c.state = "terminal_without_payment"
      <3>1. Mine(p) \in Command
        BY <1>r, Running
      <3>2. CASE run[p].seen = "expired"
        BY <1>2, <3>1, <3>2 DEF Recorded, Command, State, Expiry
      <3>3. CASE run[p].seen = "complete"
        BY <1>2, <3>1, <3>3 DEF Recorded, Command, State, Expiry
      <3>4. CASE run[p].seen \notin {"expired", "complete"}
        BY <1>2, <3>1, <3>4 DEF Recorded, Command, State, Expiry
      <3> QED BY <3>2, <3>3, <3>4
    <2>2. run[p].seen = "expired" => session[Own(k)] = "expired"
      BY <1>r, Running DEF RunInv
    <2>3. Fits(c, k)
      <3>1. Mine(p).session = Own(k) /\ session[Own(k)] # "none" /\ guard = k
        BY <1>r, <1>2, <1>4, Running DEF Fits
      <3> HIDE DEF c
      <3> QED BY <2>1, <2>2, <3>1 DEF Fits
    <2> DEFINE ended == run[p].seen \in {"expired", "complete"} /\ c.expiry = "nonpayable_proven"
    <2>4. /\ Writes(p, c, IF ended THEN x ELSE IdleRun)
          /\ UNCHANGED <<guard, session, asked, shown>>
      BY <1>4 DEF Record, stripe
    <2>5. PICK r \in {x, IdleRun} : r = IF ended THEN x ELSE IdleRun
      OBVIOUS
    <2>6. r \in RunRecord /\ (r.pc = "idle" \/ (r.pc = "supersede" /\ r.key = k /\ r.next \in Key))
      <3> HIDE DEF x
      <3> QED BY <1>1, <1>2, <2>5, IdleFacts
    <2>7. Writes(p, c, r)
      BY <2>4, <2>5
    <2>8. command'[k] = c
      BY <1>2, <2>1, <2>6, <2>7, WritesTo DEF IInv
    <2>9. RunInv(r)'
      <3> HIDE DEF c
      <3> QED BY <1>2, <2>1, <2>6, <2>8 DEF RunInv, Changing, Activating
    <2> HIDE DEF c
    <2> QED BY <1>r, <1>a, <2>1, <2>3, <2>4, <2>6, <2>7, <2>9, WriteStep
  <1> QED BY <1>3, <1>4

\* The guard goes from a command that cannot be paid any more to one that is new.
LEMMA SupersedeStep ==
    ASSUME IInv, NEW p \in Run, Supersede(p)
    PROVE  IInv'
  <1> DEFINE k == run[p].key
             next == run[p].next
             on == [IdleRun EXCEPT !.pc = "register", !.op = "checkout", !.key = next]
  <1>r. run[p].pc = "supersede" /\ run[p].pc # "idle"
    BY DEF Supersede
  <1>a. Aside
    BY NothingAside DEF IInv, Supersede, stripe, billing
  <1>1. k \in Key /\ next \in Key /\ command[k].state # "none"
        /\ command[k] \in Command /\ CommandInv(k) /\ CommandInv(next)
    BY <1>r, Running DEF RunInv, Changing, IInv, TypeOK
  <1>2. on \in RunRecord /\ on.pc = "register" /\ on.key = next
    BY <1>1, IdleFacts DEF RunRecord, Step
  <1>3. CASE guard = next /\ Goes(p, on) /\ UNCHANGED <<command, guard>>
    <2>1. command[next].state # "none"
      BY <1>1, <1>3 DEF CommandInv, Fits
    <2>2. RunInv(on)
      <3> HIDE DEF on
      <3> QED BY <1>1, <1>2, <2>1 DEF RunInv, Changing, Activating
    <2> QED BY <1>2, <1>3, <1>a, <2>2, QuietStep DEF Supersede, stripe
  <1>4. CASE /\ command[k].expiry = "nonpayable_proven" /\ guard = k /\ Absent(next)
             /\ command' = Superseded(p) /\ guard' = next
             /\ run' = [q \in Run |-> IF q = p THEN on
                                      ELSE [run[q] EXCEPT !.current = @ /\ run[q].key # k]]
    <2> DEFINE c == [command[k] EXCEPT !.successor = next]
    <2>1. k # next /\ command[next].state = "none"
      BY <1>1, <1>4 DEF Absent
    <2>2. /\ c \in Command /\ c.state = command[k].state /\ c.effect = command[k].effect
          /\ c.session = command[k].session /\ c.expiry = command[k].expiry
      BY <1>1 DEF Command
    <2>3. command' = [command EXCEPT ![k] = c, ![next] = NewCommand]
      BY <1>1, <1>4, <2>1 DEF Superseded, IInv, TypeOK
    <2>4. /\ command' \in [Key -> Command] /\ command'[k] = c /\ command'[next] = NewCommand
          /\ \A j \in Key \ {k, next} : command'[j] = command[j]
      <3> HIDE DEF c
      <3> QED BY <1>1, <2>1, <2>2, <2>3, NewFacts DEF IInv, TypeOK
    <2>5. run' \in [Run -> RunRecord] /\ run'[p] = on /\ Rest(Run \ {p})
      <3>1. ASSUME NEW q \in Run \ {p}
            PROVE  /\ (run[q].current /\ run[q].key # k) \in BOOLEAN
                   /\ run'[q] = [run[q] EXCEPT !.current = run[q].current /\ run[q].key # k]
        BY <1>4
      <3>2. ASSUME NEW q \in Run \ {p}, NEW b \in BOOLEAN
            PROVE  [run[q] EXCEPT !.current = b] \in RunRecord
        <4>1. run[q] \in RunRecord
          BY DEF IInv, TypeOK
        <4> QED BY <4>1 DEF RunRecord
      <3>3. ASSUME NEW q \in Run PROVE run'[q] \in RunRecord
        <4>1. CASE q = p
          BY <1>2, <1>4, <4>1
        <4>2. CASE q # p
          BY <3>1, <3>2, <4>2
        <4> QED BY <4>1, <4>2
      <3>4. run' = [q \in Run |-> run'[q]] /\ run'[p] = on
        BY <1>4
      <3> QED BY <3>1, <3>3, <3>4 DEF Rest
    <2>6. /\ command[next] = NoCommand /\ session[Own(next)] = "none" /\ Own(next) \notin asked
          /\ Own(next) \notin shown
      BY <1>1, <2>1, NoFacts DEF CommandInv, Fits
    <2>7. TypeOK'
      BY <1>a, <1>1, <1>4, <2>4, <2>5 DEF IInv, TypeOK, Aside, Supersede, stripe
    <2>8. SessionInv'
      BY DEF IInv, SessionInv, Supersede, stripe
    <2>9. ASSUME NEW j \in Key PROVE CommandInv(j)'
      <3>1. CASE j = next
        BY <2>4, <2>6, <3>1, <1>4, NewFacts DEF CommandInv, Fits, Supersede, stripe
      <3>2. CASE j = k
        <4> HIDE DEF c
        <4> QED BY <1>1, <1>4, <2>1, <2>2, <2>4, <3>2 DEF CommandInv, Fits, Supersede, stripe
      <3>3. CASE j # k /\ j # next
        <4>1. CommandInv(j) /\ guard # j /\ guard' # j
          BY <1>4, <3>3 DEF IInv
        <4> QED BY <2>4, <3>3, <4>1 DEF CommandInv, Fits, Supersede, stripe
      <3> QED BY <3>1, <3>2, <3>3
    <2>10. Grows
      <3> HIDE DEF c
      <3> QED BY <1>1, <2>2, <2>4, <2>6, NewFacts, NoFacts DEF Grows, Supersede, stripe
    <2>11. RunInv(run[p])'
      <3> HIDE DEF on
      <3> QED BY <1>1, <1>2, <2>4, <2>5, NewFacts DEF RunInv, Changing, Activating
    <2> QED BY <2>5, <2>7, <2>8, <2>9, <2>10, <2>11, RestInv DEF IInv
  <1> QED BY <1>3, <1>4 DEF Supersede
-----------------------------------------------------------------------------
(* The steps of a delivery.                                                *)

\* A delivery begins with a command whose session is paid.
LEMMA DeliverStep ==
    ASSUME IInv, NEW p \in Run, NEW k \in Key, NEW e \in Event, Deliver(p, k, e)
    PROVE  IInv'
  <1> DEFINE r == [IdleRun EXCEPT !.pc = "bind", !.op = "webhook", !.key = k, !.event = e,
                                  !.bound = command[k].bound, !.current = TRUE]
  <1>1. /\ command[k] \in Command /\ CommandInv(k) /\ command[k].effect = "session_attached"
        /\ session[Own(k)] = "complete"
    BY DEF Deliver, IInv, TypeOK, CommandInv, Fits
  <1>2. command[k].bound \in BOOLEAN /\ command[k].state # "none"
    BY <1>1, NoFacts DEF Command, CommandInv, Fits
  <1>3. r \in RunRecord /\ r.pc = "bind" /\ r.key = k /\ r.event = e
    BY <1>2, IdleFacts DEF RunRecord, Step
  <1>4. RunInv(r)
    <2> HIDE DEF r
    <2> QED BY <1>1, <1>2, <1>3 DEF RunInv, Changing, Activating
  <1>5. Aside
    BY NothingAside DEF IInv, Deliver, stripe, billing
  <1> QED BY <1>3, <1>4, <1>5, QuietStep DEF Deliver, stripe

\* A delivery that goes on knows of the same command and the same event.
LEMMA DeliveryGoesOn ==
    ASSUME IInv, NEW p \in Run, run[p].pc \in Activating,
           NEW r \in RunRecord, r.pc \in Activating, r.key = run[p].key, r.event = run[p].event
    PROVE  RunInv(r)
  <1>1. run[p].pc # "idle"
    BY DEF Activating
  <1> QED BY <1>1, Running DEF RunInv, Changing, Activating

\* The provider's identity is bound to a command that is still to be paid for.
LEMMA BindStep ==
    ASSUME IInv, NEW p \in Run, Bind(p)
    PROVE  IInv'
  <1> DEFINE k == run[p].key
             x == [run[p] EXCEPT !.pc = "invoice"]
             y == [x EXCEPT !.current = TRUE]
  <1>r. run[p].pc = "bind" /\ run[p].pc # "idle" /\ run[p].pc \in Activating
    BY DEF Bind, Activating
  <1>a. Aside
    BY NothingAside DEF IInv, Bind, stripe, billing
  <1>1. /\ x \in RunRecord /\ x.pc = "invoice" /\ x.key = k /\ x.event = run[p].event
        /\ y \in RunRecord /\ y.pc = "invoice" /\ y.key = k /\ y.event = run[p].event
    <2>1. run[p] \in RunRecord
      BY <1>r, Running
    <2> QED BY <2>1 DEF RunRecord, Step
  <1>2. RunInv(x) /\ RunInv(y)
    <2> HIDE DEF x, y
    <2> QED BY <1>r, <1>1, DeliveryGoesOn DEF Activating
  <1>3. CASE UNCHANGED command /\ Goes(p, x)
    BY <1>1, <1>2, <1>3, <1>a, QuietStep DEF Bind, stripe
  <1>4. CASE UNCHANGED command /\ Goes(p, y)
    BY <1>1, <1>2, <1>4, <1>a, QuietStep DEF Bind, stripe
  <1>5. CASE Writes(p, [Mine(p) EXCEPT !.bound = TRUE, !.state = "reconciling"], x)
    <2> DEFINE c == [Mine(p) EXCEPT !.bound = TRUE, !.state = "reconciling"]
    <2>1. /\ c \in Command /\ c.state = "reconciling" /\ c.effect = Mine(p).effect
          /\ c.session = Mine(p).session /\ c.expiry = Mine(p).expiry
      <3>1. Mine(p) \in Command
        BY <1>r, Running
      <3> QED BY <3>1 DEF Command, State
    <2>2. /\ k \in Key /\ Mine(p).effect = "session_attached" /\ session[Own(k)] = "complete"
          /\ Mine(p).expiry # "nonpayable_proven" /\ Mine(p).state # "none" /\ Fits(Mine(p), k)
          /\ run[p].event \in Event
      BY <1>r, Running DEF RunInv, Activating, Fits
    <2>3. Fits(c, k)
      <3> HIDE DEF c
      <3> QED BY <2>1, <2>2 DEF Fits
    <2>4. PICK r \in RunRecord : r = x /\ r.pc = "invoice" /\ r.key = k /\ r.event = run[p].event
      <3> HIDE DEF x
      <3> QED BY <1>1
    <2>5. Writes(p, c, r) /\ UNCHANGED <<guard, session, asked, shown>>
      BY <1>5, <2>4 DEF Bind, stripe
    <2> HIDE DEF c
    <2>6. command'[k] = c
      BY <2>1, <2>2, <2>5, WritesTo DEF IInv
    <2>7. RunInv(r)'
      BY <2>1, <2>2, <2>4, <2>5, <2>6 DEF RunInv, Changing, Activating
    <2> QED BY <1>r, <1>a, <2>1, <2>2, <2>3, <2>5, <2>7, WriteStep
  <1> QED BY <1>3, <1>4, <1>5 DEF Bind

\* The newer of two is one of them.
LEMMA LargerOf ==
    ASSUME NEW S, NEW m \in S, NEW n \in S
    PROVE  Larger(m, n) \in S
  BY DEF Larger

\* A fact is recorded aside.
LEMMA InvoiceFactStep ==
    ASSUME IInv, NEW p \in Run, InvoiceFact(p)
    PROVE  IInv'
  <1> DEFINE k == run[p].key
             x == [run[p] EXCEPT !.pc = "subscription"]
             f == Larger(fact[k].invoice, run[p].event)
  <1>r. run[p].pc = "invoice" /\ run[p].pc # "idle" /\ run[p].pc \in Activating
    BY DEF InvoiceFact, Activating
  <1>1. /\ x \in RunRecord /\ x.pc = "subscription" /\ x.key = k /\ x.event = run[p].event
    <2>1. run[p] \in RunRecord
      BY <1>r, Running
    <2> QED BY <2>1 DEF RunRecord, Step
  <1>2. RunInv(x)
    <2> HIDE DEF x
    <2> QED BY <1>r, <1>1, DeliveryGoesOn DEF Activating
  <1>3. k \in Key /\ f \in Event \cup {0}
    <2>1. k \in Key /\ run[p].event \in Event \cup {0} /\ fact[k].invoice \in Event \cup {0}
      BY <1>r, Running DEF IInv, TypeOK, RunRecord
    <2> QED BY <2>1, LargerOf
  <1>4. fact' = [fact EXCEPT ![k].invoice = f] /\ Goes(p, x)
    BY DEF InvoiceFact
  <1>5. Aside
    <2> HIDE DEF f
    <2> QED BY <1>3, <1>4 DEF IInv, TypeOK, Aside, InvoiceFact, stripe
  <1> QED BY <1>1, <1>2, <1>4, <1>5, QuietStep DEF InvoiceFact, stripe

\* So is the other, and the newest of both is the version of the activation.
LEMMA SubscriptionFactStep ==
    ASSUME IInv, NEW p \in Run, SubscriptionFact(p)
    PROVE  IInv'
  <1> DEFINE k == run[p].key
             newest == Larger(fact[k].subscription, run[p].event)
             v == Larger(fact[k].invoice, newest)
             x == [run[p] EXCEPT !.pc = "commit", !.version = v]
  <1>r. run[p].pc = "subscription" /\ run[p].pc # "idle" /\ run[p].pc \in Activating
    BY DEF SubscriptionFact, Activating
  <1>1. k \in Key /\ newest \in Event \cup {0} /\ v \in Event \cup {0}
    <2>1. /\ k \in Key /\ run[p].event \in Event \cup {0}
          /\ fact[k].subscription \in Event \cup {0} /\ fact[k].invoice \in Event \cup {0}
      BY <1>r, Running DEF IInv, TypeOK, RunRecord
    <2>2. newest \in Event \cup {0}
      BY <2>1, LargerOf
    <2> HIDE DEF newest
    <2> QED BY <2>1, <2>2, LargerOf
  <1>2. fact' = [fact EXCEPT ![k].subscription = newest] /\ Goes(p, x)
    BY DEF SubscriptionFact
  <1>3. /\ x \in RunRecord /\ x.pc = "commit" /\ x.key = k /\ x.event = run[p].event
    <2>1. run[p] \in RunRecord
      BY <1>r, Running
    <2> HIDE DEF v
    <2> QED BY <1>1, <2>1 DEF RunRecord, Step
  <1>4. RunInv(x)
    <2> HIDE DEF x
    <2> QED BY <1>r, <1>3, DeliveryGoesOn DEF Activating
  <1>5. Aside
    <2> HIDE DEF newest
    <2> QED BY <1>1, <1>2 DEF IInv, TypeOK, Aside, SubscriptionFact, stripe
  <1> QED BY <1>2, <1>3, <1>4, <1>5, QuietStep DEF SubscriptionFact, stripe

\* What is activated was paid, so it was not recorded as ended.
LEMMA ActivateStep ==
    ASSUME IInv, NEW p \in Run, Activate(p)
    PROVE  IInv'
  <1> DEFINE k == run[p].key
             c == [Mine(p) EXCEPT !.state = "activation_recorded"]
  <1>r. run[p].pc = "commit" /\ run[p].pc # "idle" /\ run[p].pc \in Activating
    BY DEF Activate, Activating
  <1>1. /\ k \in Key /\ Mine(p).effect = "session_attached" /\ session[Own(k)] = "complete"
        /\ Mine(p).expiry # "nonpayable_proven" /\ Mine(p).state # "none" /\ Fits(Mine(p), k)
        /\ Mine(p) \in Command /\ run[p].version \in Event \cup {0}
    BY <1>r, Running DEF RunInv, Activating, Fits, RunRecord
  <1>2. /\ c \in Command /\ c.state = "activation_recorded" /\ c.effect = Mine(p).effect
        /\ c.session = Mine(p).session /\ c.expiry = Mine(p).expiry
    BY <1>1 DEF Command, State
  <1>3. Writes(p, c, IdleRun) /\ UNCHANGED <<guard, session, asked, shown>>
    BY DEF Activate
  <1>4. Fits(c, k)
    <2> HIDE DEF c
    <2> QED BY <1>1, <1>2 DEF Fits
  <1>5. Aside
    BY <1>1 DEF IInv, TypeOK, Aside, Activate, Acknowledged
  <1> HIDE DEF c
  <1> QED BY <1>r, <1>1, <1>2, <1>3, <1>4, <1>5, IdleFacts, IdleInv, WriteStep

\* A delivery that activates nothing writes nothing.
LEMMA CloseStep ==
    ASSUME IInv, NEW p \in Run, Close(p)
    PROVE  IInv'
  <1>1. Aside
    BY DEF IInv, TypeOK, Aside, Close, Acknowledged, billing
  <1> QED BY <1>1, IdleFacts, IdleInv, QuietStep DEF Close, Ends

\* A run that dies leaves what it wrote.
LEMMA DieStep ==
    ASSUME IInv, NEW p \in Run, Die(p)
    PROVE  IInv'
  <1>1. Aside
    BY NothingAside DEF IInv, Die, stripe, billing
  <1> QED BY <1>1, IdleFacts, IdleInv, QuietStep DEF Die, Ends, stripe
-----------------------------------------------------------------------------
(* The invariant, and the properties it gives.                             *)

\* At first no command is stored and Stripe knows of no session.
LEMMA InitStep == Init => IInv
  <1> SUFFICES ASSUME Init PROVE IInv
    OBVIOUS
  <1>1. TypeOK
    BY NoFacts, IdleFacts DEF Init, TypeOK, Status
  <1>2. SessionInv
    BY DEF Init, SessionInv
  <1>3. ASSUME NEW k \in Key PROVE CommandInv(k)
    <2>1. command[k] = NoCommand /\ session[Own(k)] = "none" /\ Own(k) \notin asked \cup shown
      BY OwnSession DEF Init
    <2>2. guard # k
      BY CheckoutAssumption DEF Init
    <2> QED BY <2>1, <2>2, NoFacts DEF CommandInv, Fits
  <1>4. ASSUME NEW p \in Run PROVE RunInv(run[p])
    BY IdleInv DEF Init
  <1> QED BY <1>1, <1>2, <1>3, <1>4 DEF IInv

\* A step that changes nothing.
LEMMA StutterStep == IInv /\ UNCHANGED vars => IInv'
  BY DEF IInv, TypeOK, SessionInv, CommandInv, Fits, RunInv, vars

\* The invariant is inductive.
LEMMA NextStep == IInv /\ [Next]_vars => IInv'
  <1> SUFFICES ASSUME IInv, [Next]_vars PROVE IInv'
    OBVIOUS
  <1>1. CASE World
    BY <1>1, SessionCreatedStep, SessionExpiresStep, PayStep, LeaseEndsStep DEF World
  <1>2. ASSUME NEW p \in Run, Requests(p) PROVE IInv'
    BY <1>2, RegisterStep, RecheckStep, ChangeStep, DeliverStep DEF Requests
  <1>3. ASSUME NEW p \in Run, Steps(p) PROVE IInv'
    BY <1>3, ClaimStep, AwaitStep, CreateStep, FindStep, AttachStep, MarkUnknownStep,
       ClaimExpirationStep, ExpireStep, PollStep, RecordStep, SupersedeStep,
       BindStep, InvoiceFactStep, SubscriptionFactStep, ActivateStep, CloseStep DEF Steps
  <1>4. ASSUME NEW p \in Run, Die(p) PROVE IInv'
    BY <1>4, DieStep
  <1>5. CASE UNCHANGED vars
    BY <1>5, StutterStep
  <1> QED BY <1>1, <1>2, <1>3, <1>4, <1>5 DEF Next

\* It holds of every behaviour.
LEMMA Invariance == Spec => []IInv
  BY InitStep, NextStep, PTL DEF Spec

\* Every variable keeps its type, with any number of runs in any order.
THEOREM TypeCorrect == Spec => []TypeOK
  <1>1. IInv => TypeOK
    BY DEF IInv
  <1> QED BY <1>1, Invariance, PTL

\* A parent never has two sessions to pay (create_or_resume_checkout_command, the guard, and
\* supersede_checkout_command): a session belongs to a command that holds the one guard.
THEOREM OnlyOnePayable == Spec => []OnePayable
  <1>1. IInv => OnePayable
    <2> SUFFICES ASSUME IInv, NEW s \in Session, NEW t \in Session,
                        {session[s], session[t]} \subseteq {"open", "complete"}
                 PROVE  s = t
      BY DEF OnePayable
    <2>1. ASSUME NEW x \in Session, session[x] \in {"open", "complete"}
          PROVE  x = Own(x[1]) /\ guard = x[1]
      <3>1. x = Own(x[1]) /\ x[1] \in Key
        BY <2>1 DEF IInv, SessionInv, Session
      <3>2. CommandInv(x[1])
        BY <3>1 DEF IInv
      <3> QED BY <2>1, <3>1, <3>2 DEF CommandInv, Fits
    <2> QED BY <2>1
  <1> QED BY <1>1, Invariance, PTL

\* What is recorded as ended without payment was not and will not be paid
\* (record_session_expiration).
THEOREM NothingUnpaidIsPaid == Spec => []UnpaidIsFinal
  <1>1. IInv => UnpaidIsFinal
    <2> SUFFICES ASSUME IInv, NEW s \in Session, session[s] \in {"open", "complete"}
                 PROVE  command[s[1]].state # "terminal_without_payment"
      BY DEF UnpaidIsFinal
    <2>1. s = Own(s[1]) /\ s[1] \in Key
      BY DEF IInv, SessionInv, Session
    <2>2. CommandInv(s[1])
      BY <2>1 DEF IInv
    <2> QED BY <2>1, <2>2 DEF CommandInv, Fits
  <1> QED BY <1>1, Invariance, PTL

\* A command that may still be paid holds the guard, so that its key can be answered for
\* (_classify_registration_replay).
THEOREM EveryOpenHoldsGuard == Spec => []OpenHoldsGuard
  <1>1. IInv => OpenHoldsGuard
    BY DEF IInv, CommandInv, Fits, OpenHoldsGuard, Terminal
  <1> QED BY <1>1, Invariance, PTL

\* A paid session is the one its command names: it was paid at a URL that only an attached
\* session is answered with (_attached_checkout_response).
THEOREM EveryPaidIsOwned == Spec => []PaidIsOwned
  <1>1. IInv => PaidIsOwned
    <2> SUFFICES ASSUME IInv, NEW s \in Session, session[s] = "complete"
                 PROVE  /\ command[s[1]].effect = "session_attached"
                        /\ command[s[1]].session = s
      BY DEF PaidIsOwned
    <2>1. s = Own(s[1]) /\ s[1] \in Key
      BY DEF IInv, SessionInv, Session
    <2>2. CommandInv(s[1])
      BY <2>1 DEF IInv
    <2> QED BY <2>1, <2>2 DEF CommandInv, Fits
  <1> QED BY <1>1, Invariance, PTL
-----------------------------------------------------------------------------
(* CheckoutCommand implements ParentCheckout.  What a checkout's fate is   *)
(* rests on the state of its command and of the one session made for it.   *)

Final == {"none", "terminal_without_payment"}

\* Only its own session is made for a command, so Stripe says one thing of it.
LEMMA StatusesAre ==
    ASSUME NEW sessions, \A s \in Session : sessions[s] # "none" => s = Own(s[1]),
           NEW k \in Key, NEW x, x # "none"
    PROVE  x \in Statuses(k, sessions) <=> sessions[Own(k)] = x
  <1>1. \A n \in 0..MaxClaims : <<k, n>> \in Session /\ <<k, n>>[1] = k
    BY DEF Session
  <1>2. Own(k) \in {k} \X (0..MaxClaims)
    BY CheckoutAssumption DEF Own
  <1>3. ASSUME NEW s \in {k} \X (0..MaxClaims), sessions[s] = x PROVE s = Own(k)
    <2>1. s \in Session /\ s[1] = k
      BY DEF Session
    <2> QED BY <1>3, <2>1
  <1> QED BY <1>2, <1>3 DEF Statuses

\* The fate, by the state of the command and the status of the session.
LEMMA FateIs ==
    ASSUME NEW sessions, \A s \in Session : sessions[s] # "none" => s = Own(s[1]),
           NEW k \in Key, NEW c, sessions[Own(k)] \in Status
    PROVE  LET told == Fate(c, Statuses(k, sessions)) IN
           /\ c.state = "none" => told = "none"
           /\ c.state = "terminal_without_payment" => told = "closed"
           /\ c.state \notin Final =>
                /\ sessions[Own(k)] = "complete" => told = "paid"
                /\ sessions[Own(k)] = "open" => told = "payable"
                /\ sessions[Own(k)] = "expired" => told = "lapsed"
                /\ sessions[Own(k)] = "none" => told = "begun"
  <1> DEFINE statuses == Statuses(k, sessions)
  <1>1. /\ "complete" \in statuses <=> sessions[Own(k)] = "complete"
        /\ "open" \in statuses <=> sessions[Own(k)] = "open"
        /\ "expired" \in statuses <=> sessions[Own(k)] = "expired"
    BY StatusesAre
  <1> HIDE DEF statuses
  <1>2. LET told == Fate(c, statuses) IN
        /\ c.state = "none" => told = "none"
        /\ c.state = "terminal_without_payment" => told = "closed"
        /\ c.state \notin Final =>
             /\ sessions[Own(k)] = "complete" => told = "paid"
             /\ sessions[Own(k)] = "open" => told = "payable"
             /\ sessions[Own(k)] = "expired" => told = "lapsed"
             /\ sessions[Own(k)] = "none" => told = "begun"
    BY <1>1 DEF Fate, Final
  <1> QED BY <1>2 DEF statuses

FateOf(k) == Fate(command[k], Statuses(k, session))

\* The same, of the stored rows before and after a step.
LEMMA FatesAre ==
    ASSUME IInv, IInv', NEW k \in Key
    PROVE  /\ command[k].state = "none" => FateOf(k) = "none"
           /\ command[k].state = "terminal_without_payment" => FateOf(k) = "closed"
           /\ command[k].state \notin Final =>
                /\ session[Own(k)] = "complete" => FateOf(k) = "paid"
                /\ session[Own(k)] = "open" => FateOf(k) = "payable"
                /\ session[Own(k)] = "expired" => FateOf(k) = "lapsed"
                /\ session[Own(k)] = "none" => FateOf(k) = "begun"
           /\ command'[k].state = "none" => FateOf(k)' = "none"
           /\ command'[k].state = "terminal_without_payment" => FateOf(k)' = "closed"
           /\ command'[k].state \notin Final =>
                /\ session'[Own(k)] = "complete" => FateOf(k)' = "paid"
                /\ session'[Own(k)] = "open" => FateOf(k)' = "payable"
                /\ session'[Own(k)] = "expired" => FateOf(k)' = "lapsed"
                /\ session'[Own(k)] = "none" => FateOf(k)' = "begun"
           /\ session[Own(k)] \in Status /\ session'[Own(k)] \in Status
  <1>1. /\ \A s \in Session : session[s] # "none" => s = Own(s[1])
        /\ \A s \in Session : session'[s] # "none" => s = Own(s[1])
    BY DEF IInv, SessionInv
  <1>2. session[Own(k)] \in Status /\ session'[Own(k)] \in Status
    BY OwnSession DEF IInv, TypeOK
  <1>3. /\ FateOf(k) = Fate(command[k], Statuses(k, session))
        /\ FateOf(k)' = Fate(command'[k], Statuses(k, session'))
    BY DEF FateOf, Statuses
  <1> QED BY <1>1, <1>2, <1>3, FateIs

\* It is the same while the session is, and the state neither comes to a final one nor
\* leaves one.
LEMMA SameFate ==
    ASSUME IInv, IInv', NEW k \in Key, session'[Own(k)] = session[Own(k)],
           \/ command'[k].state = command[k].state
           \/ command'[k].state \notin Final /\ command[k].state \notin Final
    PROVE  FateOf(k)' = FateOf(k)
  BY FatesAre DEF Final, Status

\* A step in which no fate, guard or receipt changes is none to the parent.
LEMMA NoTurn ==
    ASSUME IInv, IInv', UNCHANGED <<guard, receipt>>,
           \A k \in Key : FateOf(k)' = FateOf(k)
    PROVE  [Checkout!Next]_(Checkout!vars)
  <1>1. [k \in Key |-> Fate(command[k], Statuses(k, session))]'
          = [k \in Key |-> Fate(command[k], Statuses(k, session))]
    BY DEF FateOf
  <1> QED BY <1>1 DEF Checkout!vars

\* A step of one checkout.
LEMMA OneTurn ==
    ASSUME IInv, IInv', UNCHANGED <<guard, receipt>>,
           NEW j \in Key, guard = j,
           \A k \in Key \ {j} : FateOf(k)' = FateOf(k),
           <<FateOf(j), FateOf(j)'>> \in {Checkout!Offered, Checkout!Paid,
                                          Checkout!Lapsed, Checkout!Closed}
    PROVE  [Checkout!Next]_(Checkout!vars)
  <1> DEFINE old == [k \in Key |-> Fate(command[k], Statuses(k, session))]
             new == [k \in Key |-> Fate(command'[k], Statuses(k, session'))]
  <1>1. \A k \in Key : old[k] = FateOf(k) /\ new[k] = FateOf(k)'
    BY DEF FateOf, Statuses
  <1>2. old = [k \in Key |-> old[k]] /\ new = [k \in Key |-> new[k]]
    OBVIOUS
  <1>3. old' = new
    BY DEF Statuses
  <1> HIDE DEF old, new
  <1>4. new = [old EXCEPT ![j] = new[j]]
    BY <1>1, <1>2
  <1>5. Checkout!Turn(j)
    BY <1>1, <1>3, <1>4 DEF Checkout!Turn, old
  <1> QED BY <1>5 DEF Checkout!Next

\* A command is stored under each of these, and is not ended as unpaid.
LEMMA LiveIs ==
    ASSUME IInv, NEW k \in Key, command[k].state # "none"
    PROVE  /\ session[Own(k)] # "expired" => command[k].state \notin Final /\ guard = k
           /\ command[k].effect # "session_attached" => command[k].state \notin Final
           /\ command[k].expiry \in {"not_started", "expire_claimed"}
                => command[k].state \notin Final /\ guard = k
  BY DEF IInv, CommandInv, Fits, Final

\* Steps that change neither sessions nor the guard, and no state to or from a final one.
LEMMA Quietly ==
    ASSUME IInv, IInv', UNCHANGED <<session, guard, receipt>>,
           \A k \in Key : \/ command'[k].state = command[k].state
                          \/ command'[k].state \notin Final /\ command[k].state \notin Final
    PROVE  [Checkout!Next]_(Checkout!vars)
  BY SameFate, NoTurn

\* The same, for a run's write of its command.
LEMMA WrittenQuietly ==
    ASSUME IInv, IInv', UNCHANGED <<session, guard, receipt>>,
           NEW p \in Run, run[p].key \in Key, NEW c,
           command' = [command EXCEPT ![run[p].key] = c],
           \/ c.state = Mine(p).state
           \/ c.state \notin Final /\ Mine(p).state \notin Final
    PROVE  [Checkout!Next]_(Checkout!vars)
  <1> SUFFICES ASSUME NEW k \in Key
               PROVE  \/ command'[k].state = command[k].state
                      \/ command'[k].state \notin Final /\ command[k].state \notin Final
    BY Quietly
  <1>1. DOMAIN command = Key
    BY DEF IInv, TypeOK
  <1>2. CASE k = run[p].key
    BY <1>1, <1>2 DEF Mine
  <1>3. CASE k # run[p].key
    BY <1>1, <1>3
  <1> QED BY <1>2, <1>3

\* Stripe's session of a stored command comes to be, is paid or lapses.
LEMMA SessionTurns ==
    ASSUME IInv, IInv', UNCHANGED <<command, guard, receipt>>,
           NEW j \in Key, command[j].state # "none", NEW x,
           session' = [session EXCEPT ![Own(j)] = x],
           <<session[Own(j)], x>> \in {<<"none", "open">>, <<"open", "complete">>,
                                       <<"open", "expired">>}
    PROVE  [Checkout!Next]_(Checkout!vars)
  <1>1. command[j].state \notin Final /\ guard = j
    BY LiveIs
  <1>2. session'[Own(j)] = x /\ \A k \in Key \ {j} : session'[Own(k)] = session[Own(k)]
    BY OwnSession DEF IInv, TypeOK
  <1>3. \A k \in Key \ {j} : FateOf(k)' = FateOf(k)
    BY <1>2, SameFate
  <1>4. \/ FateOf(j) = "begun" /\ FateOf(j)' = "payable"
        \/ FateOf(j) = "payable" /\ FateOf(j)' \in {"paid", "lapsed"}
    BY <1>1, <1>2, FatesAre
  <1>5. <<FateOf(j), FateOf(j)'>> \in {Checkout!Offered, Checkout!Paid,
                                       Checkout!Lapsed, Checkout!Closed}
    BY <1>4 DEF Checkout!Offered, Checkout!Paid, Checkout!Lapsed
  <1> QED BY <1>1, <1>3, <1>5, OneTurn

\* Writing what is there changes nothing.
LEMMA SameWrite ==
    ASSUME NEW S, NEW T, NEW f \in [S -> T], NEW x
    PROVE  [f EXCEPT ![x] = f[x]] = f
  OBVIOUS

\* What Stripe, the parent and time do.
LEMMA WorldTold ==
    ASSUME IInv, IInv', World
    PROVE  [Checkout!Next]_(Checkout!vars)
  <1>1. ASSUME NEW k \in Key, LeaseEnds(k) PROVE [Checkout!Next]_(Checkout!vars)
    <2>1. \A j \in Key : command'[j].state = command[j].state
      BY <1>1 DEF LeaseEnds, IInv, TypeOK, Command
    <2> QED BY <1>1, <2>1, Quietly DEF LeaseEnds, stripe, billing
  <1>2. ASSUME NEW s \in Session, SessionCreated(s) \/ SessionExpires(s) \/ Pay(s)
        PROVE  [Checkout!Next]_(Checkout!vars)
    <2>1. UNCHANGED <<command, guard, receipt>>
      BY <1>2 DEF SessionCreated, SessionExpires, Pay, billing
    <2>2. s = Own(s[1]) /\ s[1] \in Key
      BY <1>2 DEF IInv, SessionInv, Session, SessionCreated, SessionExpires, Pay
    <2>3. command[s[1]].state # "none"
      BY <1>2, <2>2 DEF IInv, CommandInv, Fits, SessionCreated, SessionExpires, Pay
    <2>4. PICK x \in {"open", "complete", "expired"} :
             /\ session' = [session EXCEPT ![s] = x]
             /\ <<session[s], x>> \in {<<"none", "open">>, <<"open", "complete">>,
                                       <<"open", "expired">>}
      BY <1>2 DEF SessionCreated, SessionExpires, Pay
    <2> QED BY <2>1, <2>2, <2>3, <2>4, SessionTurns
  <1> QED BY <1>1, <1>2 DEF World

\* The steps of a request on its command and at Stripe.
LEMMA RequestTold ==
    ASSUME IInv, IInv', NEW p \in Run,
           \/ Claim(p) \/ Attach(p) \/ MarkUnknown(p) \/ ClaimExpiration(p)
           \/ Create(p) \/ Expire(p)
    PROVE  [Checkout!Next]_(Checkout!vars)
  <1> DEFINE j == run[p].key
  <1>1. /\ j \in Key /\ Mine(p).state # "none" /\ Mine(p) \in Command
        /\ run[p].pc = "expire" => Mine(p).effect = "session_attached"
    BY DEF IInv, TypeOK, RunInv, Changing, Mine, Claim, Attach, MarkUnknown, ClaimExpiration,
           Create, Expire
  <1>2. CASE UNCHANGED <<command, session, guard, receipt>>
    BY <1>2, Quietly
  <1>3. ASSUME NEW c, UNCHANGED <<session, guard, receipt>>,
               command' = [command EXCEPT ![j] = c],
               c.state \notin Final /\ Mine(p).effect # "session_attached"
        PROVE  [Checkout!Next]_(Checkout!vars)
    BY <1>1, <1>3, WrittenQuietly, LiveIs DEF Mine
  <1>4. CASE Claim(p)
    <2>1. CASE Writes(p, Claimed(Mine(p)), run'[p]) /\ Mine(p).effect # "session_attached"
      <3>1. Claimed(Mine(p)).state = "provider_create_pending"
        BY <1>1 DEF Claimed, Command
      <3> QED BY <1>3, <1>4, <2>1, <3>1 DEF Claim, Writes, Final, stripe, billing
    <2> QED BY <1>2, <1>4, <2>1 DEF Claim, Writes, stripe, billing
  <1>5. CASE Attach(p)
    <2>1. CASE Mine(p).effect = "create_claimed" /\ Writes(p, Attached(p), IdleRun)
      <3>1. Attached(p).state = "provider_session_open"
        BY <1>1 DEF Attached, Command
      <3> QED BY <1>3, <1>5, <2>1, <3>1 DEF Attach, Writes, Final, stripe, billing
    <2> QED BY <1>2, <1>5, <2>1 DEF Attach, stripe, billing
  <1>6. CASE MarkUnknown(p)
    <2> DEFINE c == [Mine(p) EXCEPT !.effect = "provider_outcome_unknown",
                                    !.state = "operator_attention_required"]
    <2>1. c.state = "operator_attention_required"
      BY <1>1 DEF Command
    <2>2. command' = [command EXCEPT ![j] = c] /\ Mine(p).effect # "session_attached"
          /\ UNCHANGED <<session, guard, receipt>>
      BY <1>6 DEF MarkUnknown, Writes, stripe, billing
    <2> HIDE DEF c
    <2> QED BY <1>3, <2>1, <2>2 DEF Final
  <1>7. CASE ClaimExpiration(p)
    <2> DEFINE c == [Mine(p) EXCEPT !.expiry = "expire_claimed"]
    <2>1. c.state = Mine(p).state
      BY <1>1 DEF Command
    <2>2. UNCHANGED <<session, guard, receipt>>
      BY <1>7 DEF ClaimExpiration, stripe, billing
    <2>3. command' = command \/ command' = [command EXCEPT ![j] = c]
      BY <1>7 DEF ClaimExpiration, Writes
    <2> HIDE DEF c
    <2> QED BY <1>1, <1>2, <2>1, <2>2, <2>3, WrittenQuietly
  <1>8. CASE Create(p)
    <2>1. /\ UNCHANGED <<command, guard, receipt>>
          /\ \/ session' = session
             \/ session' = [session EXCEPT ![Own(j)] = IF session[Own(j)] = "none" THEN "open"
                                                       ELSE session[Own(j)]]
      BY <1>8 DEF Create, ProviderKey, Own, billing
    <2>2. \/ session' = session
          \/ session[Own(j)] = "none" /\ session' = [session EXCEPT ![Own(j)] = "open"]
      BY <2>1, SameWrite DEF IInv, TypeOK
    <2> QED BY <1>1, <1>2, <2>1, <2>2, SessionTurns DEF Mine
  <1>9. CASE Expire(p)
    <2>1. Mine(p).session = Own(j)
      BY <1>1, <1>9 DEF IInv, CommandInv, Fits, Mine, Expire
    <2>2. /\ UNCHANGED <<command, guard, receipt>>
          /\ \/ session' = session
             \/ session' = [session EXCEPT ![Own(j)] = IF session[Own(j)] = "open" THEN "expired"
                                                       ELSE session[Own(j)]]
      BY <1>9, <2>1 DEF Expire, billing
    <2>3. \/ session' = session
          \/ session[Own(j)] = "open" /\ session' = [session EXCEPT ![Own(j)] = "expired"]
      BY <2>2, SameWrite DEF IInv, TypeOK
    <2> QED BY <1>1, <1>2, <2>2, <2>3, SessionTurns DEF Mine
  <1> QED BY <1>4, <1>5, <1>6, <1>7, <1>8, <1>9

\* record_session_expiration: a lapse that Stripe has told closes the checkout.
LEMMA RecordTold ==
    ASSUME IInv, IInv', NEW p \in Run, Record(p)
    PROVE  [Checkout!Next]_(Checkout!vars)
  <1> PICK j \in Key : j = run[p].key
    BY DEF IInv, RunInv, Record
  <1> DEFINE c == Recorded(Mine(p), run[p].seen)
  <1>1. /\ j \in Key /\ Mine(p).state # "none" /\ Mine(p) \in Command
        /\ run[p].seen = "expired" => session[Own(j)] = "expired"
        /\ run[p].seen \in Status \cup {"unknown"}
    BY DEF IInv, TypeOK, RunInv, RunRecord, Mine, Record
  <1>2. UNCHANGED <<session, guard, receipt>>
    BY DEF Record, stripe, billing
  <1>3. CASE command' = command
    BY <1>2, <1>3, Quietly
  <1>4. CASE /\ command' = [command EXCEPT ![j] = c]
             /\ Mine(p).expiry \in {"not_started", "expire_claimed"}
    <2>1. Mine(p).state \notin Final /\ guard = j
      BY <1>1, <1>4, LiveIs DEF Mine
    <2>2. CASE run[p].seen # "expired"
      <3>1. c.state \notin Final
        BY <1>1, <2>2 DEF Recorded, Command, Final
      <3> HIDE DEF c
      <3> QED BY <1>1, <1>2, <1>4, <2>1, <3>1, WrittenQuietly
    <2>3. CASE run[p].seen = "expired"
      <3>1. c.state = "terminal_without_payment"
        BY <1>1, <2>3 DEF Recorded, Command
      <3> HIDE DEF c
      <3>2. command'[j] = c /\ \A k \in Key \ {j} : command'[k] = command[k]
        BY <1>1, <1>4 DEF IInv, TypeOK
      <3>3. \A k \in Key \ {j} : FateOf(k)' = FateOf(k)
        BY <1>2, <3>2, SameFate
      <3>4. FateOf(j) = "lapsed" /\ FateOf(j)' = "closed"
        BY <1>1, <1>2, <2>1, <2>3, <3>1, <3>2, FatesAre DEF Mine
      <3>5. <<FateOf(j), FateOf(j)'>> \in {Checkout!Offered, Checkout!Paid,
                                           Checkout!Lapsed, Checkout!Closed}
        BY <3>4 DEF Checkout!Closed
      <3> QED BY <1>2, <2>1, <3>3, <3>5, OneTurn
    <2> QED BY <2>2, <2>3
  <1> QED BY <1>3, <1>4 DEF Record, Writes

\* A checkout begins under the guard, which was free or is handed over.
LEMMA BeginTold ==
    ASSUME IInv, IInv', UNCHANGED <<session, receipt>>, NEW j \in Key,
           command[j].state = "none", command'[j].state = "intent_recorded",
           \A k \in Key \ {j} : command'[k].state = command[k].state,
           guard' = j,
           \/ guard = NoKey
           \/ \E k \in Key : guard = k /\ command[k].state = "terminal_without_payment"
    PROVE  [Checkout!Next]_(Checkout!vars)
  <1> DEFINE old == [k \in Key |-> Fate(command[k], Statuses(k, session))]
             new == [k \in Key |-> Fate(command'[k], Statuses(k, session'))]
  <1>1. \A k \in Key : old[k] = FateOf(k) /\ new[k] = FateOf(k)'
    BY DEF FateOf, Statuses
  <1>2. old = [k \in Key |-> old[k]] /\ new = [k \in Key |-> new[k]]
    OBVIOUS
  <1>3. old' = new
    BY DEF Statuses
  <1>4. session'[Own(j)] = "none"
    BY DEF IInv, CommandInv, Fits
  <1>5. FateOf(j) = "none" /\ FateOf(j)' = "begun"
    BY <1>4, FatesAre DEF Final
  <1>6. \A k \in Key \ {j} : FateOf(k)' = FateOf(k)
    BY SameFate
  <1>7. \A k \in Key : command[k].state = "terminal_without_payment" => FateOf(k) = "closed"
    BY FatesAre
  <1>8. {k \in Key : receipt[k] # {}}' = {k \in Key : receipt[k] # {}}
    OBVIOUS
  <1> HIDE DEF old, new
  <1>9. new = [old EXCEPT ![j] = "begun"]
    BY <1>1, <1>2, <1>5, <1>6
  <1>10. CASE guard = NoKey
    <2>1. Checkout!Begin(j)
      BY <1>1, <1>3, <1>5, <1>8, <1>9, <1>10 DEF Checkout!Begin, old
    <2> QED BY <2>1 DEF Checkout!Next
  <1>11. ASSUME NEW k \in Key, guard = k, command[k].state = "terminal_without_payment"
         PROVE  [Checkout!Next]_(Checkout!vars)
    <2>1. Checkout!Replace(k, j)
      BY <1>1, <1>3, <1>5, <1>7, <1>8, <1>9, <1>11 DEF Checkout!Replace, old
    <2> QED BY <1>11, <2>1 DEF Checkout!Next
  <1> QED BY <1>10, <1>11

\* supersede_checkout_command: the guard goes from a checkout that closed to its replacement.
LEMMA SupersedeTold ==
    ASSUME IInv, IInv', NEW p \in Run, Supersede(p)
    PROVE  [Checkout!Next]_(Checkout!vars)
  <1> DEFINE j == run[p].key
             next == run[p].next
  <1>1. j \in Key /\ next \in Key /\ command[j] \in Command
    BY DEF IInv, TypeOK, RunInv, Changing, Supersede
  <1>2. UNCHANGED <<session, receipt>>
    BY DEF Supersede, stripe, billing
  <1>3. CASE UNCHANGED <<command, guard>>
    BY <1>2, <1>3, Quietly
  <1>4. CASE /\ command[j].state = "terminal_without_payment"
             /\ guard = j /\ Absent(next)
             /\ command' = Superseded(p) /\ guard' = next
    <2> DEFINE c == [command[j] EXCEPT !.successor = next]
    <2>1. c.state = command[j].state /\ command[next].state = "none" /\ next # j
      BY <1>1, <1>4 DEF Command, Absent
    <2> HIDE DEF c
    <2>2. command' = [command EXCEPT ![j] = c, ![next] = NewCommand]
      BY <1>4 DEF Superseded, c
    <2>3. /\ command'[next].state = "intent_recorded"
          /\ \A k \in Key \ {next} : command'[k].state = command[k].state
      BY <1>1, <2>1, <2>2, NewFacts DEF IInv, TypeOK
    <2> HIDE DEF j, next
    <2> QED BY <1>1, <1>2, <1>4, <2>1, <2>3, BeginTold
  <1> QED BY <1>3, <1>4 DEF Supersede

\* create_or_resume_checkout_command: a checkout begins where none holds the guard.
LEMMA RegisterTold ==
    ASSUME IInv, IInv', NEW p \in Run, NEW k \in Key, Register(p, k)
    PROVE  [Checkout!Next]_(Checkout!vars)
  <1>1. UNCHANGED <<session, receipt>>
    BY DEF Register, stripe, billing
  <1>2. CASE UNCHANGED <<command, guard>>
    BY <1>1, <1>2, Quietly
  <1>3. CASE /\ Absent(k) /\ GuardFree
             /\ command' = [command EXCEPT ![k] = NewCommand] /\ guard' = k
    <2>1. /\ command'[k].state = "intent_recorded"
          /\ \A j \in Key \ {k} : command'[j].state = command[j].state
      BY <1>3, NewFacts DEF IInv, TypeOK
    <2> QED BY <1>1, <1>3, <2>1, BeginTold DEF Absent, GuardFree
  <1> QED BY <1>2, <1>3 DEF Register

\* bind_webhook_provider_identity: a paid checkout is being reconciled, and is still paid.
LEMMA BindTold ==
    ASSUME IInv, IInv', NEW p \in Run, Bind(p)
    PROVE  [Checkout!Next]_(Checkout!vars)
  <1> DEFINE j == run[p].key
             c == [Mine(p) EXCEPT !.bound = TRUE, !.state = "reconciling"]
  <1>1. /\ j \in Key /\ Mine(p).state # "none" /\ Mine(p) \in Command
        /\ session[Own(j)] = "complete"
    BY DEF IInv, TypeOK, RunInv, Activating, Mine, Bind
  <1>2. UNCHANGED <<session, guard, receipt>>
    BY DEF Bind, stripe, billing
  <1>3. c.state \notin Final /\ Mine(p).state \notin Final
    BY <1>1, LiveIs DEF Command, Final, Mine
  <1>4. command' = command \/ command' = [command EXCEPT ![j] = c]
    BY DEF Bind, Writes
  <1> HIDE DEF c
  <1>5. CASE command' = command
    BY <1>2, <1>5, Quietly
  <1>6. CASE command' = [command EXCEPT ![j] = c]
    BY <1>1, <1>2, <1>3, <1>6, WrittenQuietly
  <1> QED BY <1>4, <1>5, <1>6

\* commit_paid_activation: what is activated was paid.
LEMMA ActivateTold ==
    ASSUME IInv, IInv', NEW p \in Run, Activate(p)
    PROVE  [Checkout!Next]_(Checkout!vars)
  <1> PICK j \in Key : j = run[p].key
    BY DEF IInv, RunInv, Activate
  <1> DEFINE c == [Mine(p) EXCEPT !.state = "activation_recorded"]
             done == {k \in Key : receipt[k] # {}}
  <1>1. /\ j \in Key /\ Mine(p).state # "none" /\ Mine(p) \in Command
        /\ session[Own(j)] = "complete"
    BY DEF IInv, TypeOK, RunInv, Activating, Mine, Activate
  <1>2. /\ UNCHANGED <<session, guard>>
        /\ receipt' = [receipt EXCEPT ![j] = receipt[j] \cup {run[p].version}]
        /\ command' = [command EXCEPT ![j] = c]
    BY DEF Activate, Writes
  <1>3. c.state \notin Final /\ Mine(p).state \notin Final /\ guard = j
    BY <1>1, LiveIs DEF Command, Final, Mine
  <1> HIDE DEF c
  <1>4. command'[j] = c /\ \A k \in Key \ {j} : command'[k] = command[k]
    BY <1>1, <1>2 DEF IInv, TypeOK
  <1>5. \A k \in Key : FateOf(k)' = FateOf(k)
    <2> SUFFICES ASSUME NEW k \in Key
                 PROVE  \/ command'[k].state = command[k].state
                        \/ command'[k].state \notin Final /\ command[k].state \notin Final
      BY <1>2, SameFate
    <2> QED BY <1>3, <1>4 DEF Mine
  <1>6. FateOf(j) = "paid"
    BY <1>1, <1>3, FatesAre DEF Mine
  <1>7. receipt'[j] # {} /\ \A k \in Key \ {j} : receipt'[k] = receipt[k]
    BY <1>1, <1>2 DEF IInv, TypeOK
  <1>8. done' = done \cup {j}
    BY <1>1, <1>7
  <1>9. [k \in Key |-> Fate(command[k], Statuses(k, session))]'
          = [k \in Key |-> Fate(command[k], Statuses(k, session))]
    BY <1>5 DEF FateOf
  <1> DEFINE fates == [k \in Key |-> Fate(command[k], Statuses(k, session))]
  <1>10. fates' = fates /\ fates[j] = "paid"
    BY <1>1, <1>6, <1>9 DEF FateOf
  <1>11. CASE j \in done
    <2>1. done' = done
      BY <1>8, <1>11
    <2> QED BY <1>2, <1>10, <2>1 DEF Checkout!vars
  <1>12. CASE j \notin done
    <2>1. Checkout!Activate(j)
      <3> HIDE DEF fates, done
      <3>1. /\ guard = j /\ j \notin done /\ fates[j] = "paid"
            /\ done' = done \cup {j} /\ fates' = fates /\ guard' = guard
        BY <1>2, <1>3, <1>8, <1>10, <1>12
      <3> QED BY <3>1 DEF Checkout!Activate, fates, done
    <2> QED BY <1>1, <2>1 DEF Checkout!Next
  <1> QED BY <1>11, <1>12

\* Every step of the requests, the webhooks and the world is one of the parent's checkouts.
LEMMA StepTold ==
    ASSUME IInv, IInv', [Next]_vars
    PROVE  [Checkout!Next]_(Checkout!vars)
  <1>1. CASE UNCHANGED <<command, session, guard, receipt>>
    BY <1>1, Quietly
  <1>2. CASE World
    BY <1>2, WorldTold
  <1>3. ASSUME NEW p \in Run, Requests(p) PROVE [Checkout!Next]_(Checkout!vars)
    BY <1>1, <1>3, RegisterTold DEF Requests, Recheck, Change, Deliver, stripe, billing
  <1>4. ASSUME NEW p \in Run, Steps(p) PROVE [Checkout!Next]_(Checkout!vars)
    <2>1. CASE Claim(p) \/ Attach(p) \/ MarkUnknown(p) \/ ClaimExpiration(p) \/ Create(p)
               \/ Expire(p)
      BY <2>1, RequestTold
    <2>2. CASE Record(p)
      BY <2>2, RecordTold
    <2>3. CASE Supersede(p)
      BY <2>3, SupersedeTold
    <2>4. CASE Bind(p)
      BY <2>4, BindTold
    <2>5. CASE Activate(p)
      BY <2>5, ActivateTold
    <2>6. CASE Await(p) \/ Find(p) \/ Poll(p)
      BY <1>1, <2>6 DEF Await, Find, Poll, stripe, billing
    <2>7. CASE InvoiceFact(p) \/ SubscriptionFact(p) \/ Close(p)
      BY <1>1, <2>7 DEF InvoiceFact, SubscriptionFact, Close, stripe, billing
    <2> QED BY <1>4, <2>1, <2>2, <2>3, <2>4, <2>5, <2>6, <2>7 DEF Steps
  <1>5. ASSUME NEW p \in Run, Die(p) PROVE [Checkout!Next]_(Checkout!vars)
    BY <1>1, <1>5 DEF Die, stripe, billing
  <1>6. CASE UNCHANGED vars
    BY <1>1, <1>6 DEF vars
  <1> QED BY <1>2, <1>3, <1>4, <1>5, <1>6 DEF Next

\* Requests, webhooks and Stripe together give the parent one checkout after the other: only one
\* can be paid at a time, the next begins after a lapse that was recorded, and what is activated
\* was paid (create_or_resume_checkout_command, record_session_expiration,
\* supersede_checkout_command, commit_paid_activation).
THEOREM CheckoutsFollow == Spec => OneCheckout
  <1>1. Init => Checkout!Init
    <2> SUFFICES ASSUME Init PROVE Checkout!Init
      OBVIOUS
    <2>1. \A k \in Key : Fate(command[k], Statuses(k, session)) = "none"
      BY NoFacts DEF Init, Fate
    <2>2. {k \in Key : receipt[k] # {}} = {}
      BY DEF Init
    <2> QED BY <2>1, <2>2 DEF Init, Checkout!Init
  <1>2. IInv /\ IInv' /\ [Next]_vars => [Checkout!Next]_(Checkout!vars)
    BY StepTold
  <1> QED BY <1>1, <1>2, Invariance, PTL DEF Spec, OneCheckout, Checkout!Spec
=============================================================================
