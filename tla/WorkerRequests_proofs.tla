------------------------ MODULE WorkerRequests_proofs ------------------------
(***************************************************************************)
(* What becomes of the requests.  First the leases: a lease is bound once  *)
(* and served by the claim it is bound to, from what the log says of       *)
(* bindings, what each worker remembers of them, and the fold of earlier   *)
(* claims' bindings that keeps the two apart.  Then the subscriptions: how *)
(* every step moves the requests its worker holds, and from that what a    *)
(* watermark and a retirement say of the subscriptions below them.  Last   *)
(* the stops and the nameless records: what of them an exit answers.       *)
(***************************************************************************)
EXTENDS Worker_proofs

(* The binding at seq i, while its claim was held. *)
BindingOf(i, r, c) == log[i].topic = "bound" /\ log[i].rid = r /\ log[i].claim = c

BoundTo(r, c) == \E i \in 1..Len(log) : BindingOf(i, r, c)

Served(r, c) == DurableAsked(r) \/ BoundTo(r, c)

BindingsInv ==
  \A i \in 1..Len(log) : log[i].topic = "bound" =>
    /\ Readable(log[i]) /\ log[i].claim \in AllClaims /\ log[i].claim < i
    /\ Endings(log, log[i].claim, i) = {}

(* What a worker remembers of the leases and the subscriptions. *)
LeasesKnown(s) ==
  /\ s.pc \in DrainPcs /\ ~s.folded => s.mode = "EXIT"
  /\ \A i \in 1..Len(log) :
       log[i].topic = "bound" /\ log[i].claim = s.claim => log[i].rid \in s.bound
  /\ \A r \in s.bound : BoundTo(r, s.claim)
  /\ \A r \in RequestIds :
       /\ s.subs[r] = "lease" => r \in s.bound
       /\ s.subs[r] = "durable" => DurableAsked(r)
  /\ \A r \in s.under.fired \cup s.under.expired : Served(r, s.claim)

LeasesInv ==
  /\ BindingsInv
  /\ \A w \in Workers : wk[w].up => LeasesKnown(wk[w])
  /\ LeasesBound

-----------------------------------------------------------------------------
(* The bindings of a log that grows. *)

(* Whoever binds holds its claim, by now and still. *)
LEMMA NewBinding ==
  ASSUME RunInv, Step, Landed, Newest.topic = "bound"
  PROVE  \E w \in Workers :
           /\ WorkerStep(w) /\ Binding(wk[w], wk'[w], Newest)
           /\ Newest.claim = wk[w].claim /\ Readable(Newest)
           /\ wk[w].up /\ wk[w].claim \in AllClaims
           /\ Endings(log, wk[w].claim, Len(log)) = {}
<1>0. TypeInv /\ WriterInv /\ ExitsInv
  BY DEF RunInv, ClaimInv
<1>1. ~UNCHANGED log /\ \A e \in Record : Send(e) => Newest = e
  BY <1>0, Sent DEF Landed, Newest, TypeInv, TypeOK
<1>2. ASSUME NEW w \in Workers, ClaimWon(w) PROVE FALSE
  BY <1>1, <1>2 DEF ClaimWon
<1>3. ASSUME NEW x \in Actors, ReportMoves(x) PROVE FALSE
  BY <1>1, <1>3 DEF ReportMoves, ReportGoesOn, ReportIsOver
<1>4. ~Asked
  BY <1>1, SMTT(60) DEF Asked, IsControl, ControlTopics
<1>5. PICK w \in Workers : WorkerStep(w)
  BY <1>1, <1>2, <1>3, <1>4 DEF Step, Probed, Gone, ReportBegins
<1>6. PICK e \in Record : Send(e) /\ Writes(wk[w], wk'[w], e)
  BY <1>1, <1>5 DEF WorkerStep, LogMoves
<1>7. Newest = e /\ e.topic = "bound"
  BY <1>1, <1>6
<1>8. /\ e.claim = wk[w].claim /\ Readable(e)
      /\ wk[w].pc = "take" /\ wk[w].w = Len(log)
  BY <1>6, <1>7 DEF Writes
<1>9. wk[w].up /\ ~Done(wk[w])
  BY <1>5 DEF WorkerStep, ControlMoves
<1>10. wk[w].claim \in AllClaims /\ ~Reported(log, wk[w].claim, Len(log))
  BY <1>0, <1>8 DEF WriterInv, WorkPcs
<1>11. Endings(log, wk[w].claim, Len(log)) = {}
  BY <1>0, <1>9, <1>10, NoExitYet DEF Reported
<1>12. Binding(wk[w], wk'[w], Newest)
  <2>1. BoundMoves(wk[w], wk'[w]) /\ Len(log') > Len(log)
    BY <1>0, <1>5, LogKept, StepGrows DEF WorkerStep, Landed
  <2> QED
    BY <1>1, <2>1 DEF BoundMoves, Newest
<1> QED
  BY <1>5, <1>7, <1>8, <1>9, <1>10, <1>11, <1>12

LEMMA StepKeepsBindings ==
  ASSUME RunInv, BindingsInv, Step
  PROVE  BindingsInv'
<1>0. TypeInv /\ LogStep /\ Len(log) \in Nat
  BY StepGrows, LogKept DEF RunInv, ClaimInv
<1> SUFFICES ASSUME NEW i \in 1..Len(log'), log'[i].topic = "bound"
             PROVE  /\ Readable(log'[i]) /\ log'[i].claim \in AllClaims' /\ log'[i].claim < i
                    /\ Endings(log', log'[i].claim, i) = {}
  BY DEF BindingsInv
<1>1. CASE i \in 1..Len(log)
  <2>1. log'[i] = log[i] /\ i \in 0..Len(log)
    BY <1>0, <1>1, LogKept
  <2>2. /\ Readable(log[i]) /\ log[i].claim \in AllClaims /\ log[i].claim < i
        /\ Endings(log, log[i].claim, i) = {}
    BY <1>1, <2>1 DEF BindingsInv
  <2>3. log[i].claim \in Nat
    BY <2>2 DEF AllClaims, Claims
  <2> QED
    BY <1>0, <2>1, <2>2, <2>3, EndingsGrow, ClaimsGrow
<1>2. CASE i \notin 1..Len(log)
  <2>1. Landed /\ i = Len(log') /\ i = Len(log) + 1 /\ Newest = log'[i]
    BY <1>0, <1>2, LogKept DEF Landed, Newest
  <2>2. PICK w \in Workers : /\ Newest.claim = wk[w].claim /\ Readable(Newest)
                             /\ wk[w].claim \in AllClaims
                             /\ Endings(log, wk[w].claim, Len(log)) = {}
    BY <2>1, NewBinding
  <2>3. wk[w].claim \in 1..Len(log)
    BY <1>0, <2>2, ClaimsGrow
  <2>4. Endings(log', wk[w].claim, Len(log')) = {}
    BY <1>0, <2>1, <2>2, <2>3, EndingsGrow
  <2> QED
    BY <1>0, <2>1, <2>2, <2>3, <2>4, ClaimsGrow
<1> QED
  BY <1>1, <1>2

-----------------------------------------------------------------------------
(* What a worker knows of its leases. *)

LEMMA KnownKept ==
  ASSUME TypeInv, LogStep, NEW u \in Workers, LeasesKnown(wk[u]),
         Frame(wk[u], wk'[u]), Names(wk[u], wk'[u]), DrainMode(wk[u], wk'[u]),
         ~(Landed /\ Newest.topic = "bound" /\ Newest.claim = wk[u].claim)
  PROVE  LeasesKnown(wk[u])'
<1> DEFINE v == wk[u]
           t == wk'[u]
<1>1. /\ t.claim = v.claim /\ t.folded = v.folded /\ t.bound = v.bound
      /\ \A r \in RequestIds : t.subs[r] \in {v.subs[r], "none"}
  BY DEF Frame
<1>2. t.pc \in DrainPcs /\ ~t.folded => t.mode = "EXIT"
  BY <1>1 DEF LeasesKnown, DrainMode
<1>3. ASSUME NEW i \in 1..Len(log'), log'[i].topic = "bound", log'[i].claim = t.claim
      PROVE  log'[i].rid \in t.bound
  <2>1. i \in 1..Len(log) /\ log'[i] = log[i]
    BY <1>1, <1>3, LogKept DEF Landed, Newest
  <2> QED
    BY <1>1, <1>3, <2>1 DEF LeasesKnown
<1>4. \A r : /\ DurableAsked(r) => DurableAsked(r)'
             /\ BoundTo(r, v.claim) => \E i \in 1..Len(log') :
                  log'[i].topic = "bound" /\ log'[i].rid = r /\ log'[i].claim = v.claim
  BY LogKept, SMTT(60) DEF DurableAsked, BoundTo, BindingOf, Landed
<1>5. \A r \in t.bound : \E i \in 1..Len(log') :
        log'[i].topic = "bound" /\ log'[i].rid = r /\ log'[i].claim = t.claim
  BY <1>1, <1>4 DEF LeasesKnown
<1>6. \A r \in RequestIds : /\ t.subs[r] = "lease" => r \in t.bound
                            /\ t.subs[r] = "durable" => DurableAsked(r)'
  BY <1>1, <1>4 DEF LeasesKnown
<1>7. ASSUME NEW r \in t.under.fired \cup t.under.expired
      PROVE  \/ DurableAsked(r)'
             \/ \E i \in 1..Len(log') :
                  log'[i].topic = "bound" /\ log'[i].rid = r /\ log'[i].claim = t.claim
  <2>1. Served(r, v.claim)
    BY <1>7 DEF Names, LeasesKnown
  <2> QED
    BY <1>1, <1>4, <2>1 DEF Served
<1> QED
  BY <1>2, <1>3, <1>5, <1>6, <1>7 DEF LeasesKnown, Served, BoundTo, BindingOf

LEMMA WorkerKeepsKnown ==
  ASSUME RunInv, Step, NEW w \in Workers, WorkerStep(w), LeasesKnown(wk[w])
  PROVE  LeasesKnown(wk[w])'
<1> DEFINE v == wk[w]
           t == wk'[w]
<1>0. TypeInv /\ LogStep
  BY StepGrows DEF RunInv, ClaimInv
<1>1. /\ t.claim = v.claim /\ SubsMove(v, t) /\ BoundMoves(v, t) /\ LogMoves(v, t)
  BY DEF WorkerStep, ControlMoves
<1>2. t.pc \in DrainPcs /\ ~t.folded => t.mode = "EXIT"
  BY <1>1 DEF LeasesKnown, SubsMove
<1>3. \A r : /\ DurableAsked(r) => DurableAsked(r)'
             /\ BoundTo(r, v.claim) => \E i \in 1..Len(log') :
                  log'[i].topic = "bound" /\ log'[i].rid = r /\ log'[i].claim = v.claim
  BY <1>0, LogKept DEF DurableAsked, BoundTo, BindingOf, Landed
<1>4. \/ t.bound = v.bound /\ ~(Landed /\ Newest.topic = "bound")
      \/ /\ Landed /\ Newest.topic = "bound" /\ Newest.claim = v.claim
         /\ t.bound = v.bound \cup {Newest.rid}
  <2>1. ASSUME NEW e \in Record, Send(e), Binding(v, t, e)
        PROVE  /\ Landed /\ Newest.topic = "bound" /\ Newest.claim = v.claim
               /\ t.bound = v.bound \cup {Newest.rid}
    <3>1. Landed /\ Newest = e /\ e.topic = "bound"
      BY <1>0, <2>1, Sent DEF Landed, Newest, Binding, TypeInv, TypeOK
    <3>2. PICK f \in Record : Send(f) /\ Writes(v, t, f)
      BY <1>0, <1>1, <3>1, LogKept DEF LogMoves, Landed
    <3>3. f = e
      BY <1>0, <3>1, <3>2, Sent DEF Newest, TypeInv, TypeOK
    <3> QED
      BY <2>1, <3>1, <3>2, <3>3 DEF Writes, Binding
  <2>2. CASE t.bound = v.bound /\ (Len(log') > Len(log) => log'[Len(log')].topic # "bound")
    BY <1>0, <2>2, LogKept DEF Landed, Newest
  <2> QED
    BY <1>1, <2>1, <2>2 DEF BoundMoves
<1>5. v.bound \subseteq t.bound
  BY <1>4
<1>6. ASSUME NEW i \in 1..Len(log'), log'[i].topic = "bound", log'[i].claim = t.claim
      PROVE  log'[i].rid \in t.bound
  <2>1. CASE i \in 1..Len(log)
    BY <1>0, <1>1, <1>5, <1>6, <2>1, LogKept DEF LeasesKnown
  <2>2. CASE i \notin 1..Len(log)
    <3>1. Landed /\ Newest = log'[i]
      BY <1>0, <2>2, LogKept DEF Landed, Newest
    <3> QED
      BY <1>4, <1>6, <3>1
  <2> QED
    BY <2>1, <2>2
<1>7. ASSUME NEW r \in t.bound
      PROVE  \E i \in 1..Len(log') :
               log'[i].topic = "bound" /\ log'[i].rid = r /\ log'[i].claim = t.claim
  <2>1. CASE r \in v.bound
    BY <1>1, <1>3, <2>1 DEF LeasesKnown
  <2>2. CASE r \notin v.bound
    <3>1. Landed /\ Newest.topic = "bound" /\ Newest.claim = v.claim /\ r = Newest.rid
      BY <1>4, <1>7, <2>2
    <3>2. Len(log') \in 1..Len(log')
      BY <1>0, <3>1, LogKept DEF Landed
    <3> QED
      BY <1>1, <3>1, <3>2 DEF Newest
  <2> QED
    BY <2>1, <2>2
<1>8. \A r \in RequestIds : /\ t.subs[r] = "lease" => r \in t.bound
                            /\ t.subs[r] = "durable" => DurableAsked(r)'
  BY <1>1, <1>3, <1>5 DEF LeasesKnown, SubsMove
<1>9. ASSUME NEW r \in t.under.fired \cup t.under.expired
      PROVE  \/ DurableAsked(r)'
             \/ \E i \in 1..Len(log') :
                  log'[i].topic = "bound" /\ log'[i].rid = r /\ log'[i].claim = t.claim
  <2>1. DurableAsked(r) \/ BoundTo(r, v.claim)
    BY <1>1, <1>9 DEF SubsMove, LeasesKnown, Served
  <2> QED
    BY <1>1, <1>3, <2>1
<1> QED
  BY <1>2, <1>6, <1>7, <1>8, <1>9 DEF LeasesKnown, Served, BoundTo, BindingOf

(* A worker whose bindings stay as they are is not the one that binds. *)
LEMMA NotTheBinder ==
  ASSUME RunInv, Step, NEW u \in Workers, wk'[u].bound = wk[u].bound
  PROVE  ~(Landed /\ Newest.topic = "bound" /\ Newest.claim = wk[u].claim)
<1> SUFFICES ASSUME Landed, Newest.topic = "bound", Newest.claim = wk[u].claim
             PROVE  FALSE
  OBVIOUS
<1>1. PICK w \in Workers : /\ Binding(wk[w], wk'[w], Newest)
                           /\ Newest.claim = wk[w].claim /\ wk[w].claim \in AllClaims
  BY NewBinding
<1>2. w # u
  BY <1>1 DEF Binding
<1>3. wk[w].claim = 0
  BY <1>1, <1>2 DEF RunInv, WriterInv
<1> QED
  BY <1>1, <1>3 DEF AllClaims, Claims

LEMMA WonKeepsKnown ==
  ASSUME RunInv, BindingsInv, NEW w \in Workers, ClaimWon(w), LeasesKnown(wk[w])
  PROVE  LeasesKnown(wk[w])'
<1> DEFINE v == wk[w]
           t == wk'[w]
<1>0. TypeInv /\ LogStep /\ Len(log) \in Nat
  BY LogKept DEF RunInv, ClaimInv, ClaimWon, LogStep, TypeInv, TypeOK
<1>1. /\ v.claim = 0 /\ t.claim = Len(log) + 1 /\ t.pc = "answers"
      /\ t.subs = v.subs /\ t.bound = v.bound /\ t.under = v.under
  BY DEF ClaimWon, RunInv, WriterInv, ClaimPcs
<1>2. \A r : ~BoundTo(r, 0)
  BY DEF BoundTo, BindingOf, BindingsInv, AllClaims, Claims
<1>3. v.bound = {} /\ \A r \in v.under.fired \cup v.under.expired : DurableAsked(r)
  BY <1>1, <1>2 DEF LeasesKnown, Served
<1>4. ASSUME NEW i \in 1..Len(log'), log'[i].topic = "bound"
      PROVE  log'[i].claim # t.claim
  <2>1. CASE i \in 1..Len(log)
    <3>1. log'[i] = log[i] /\ log[i].claim \in AllClaims
      BY <1>0, <1>4, <2>1, LogKept DEF BindingsInv
    <3> QED
      BY <1>0, <1>1, <3>1, ClaimsGrow
  <2>2. CASE i \notin 1..Len(log)
    <3>1. Newest = log'[i] /\ Landed
      BY <1>0, <2>2, LogKept DEF Landed, Newest
    <3>2. PICK e \in Record : e.topic = "started" /\ Send(e)
      BY DEF ClaimWon
    <3>3. Newest = e
      BY <1>0, <3>2, Sent DEF Newest, TypeInv, TypeOK
    <3> QED
      BY <1>4, <3>1, <3>2, <3>3
  <2> QED
    BY <2>1, <2>2
<1>5. \A r : DurableAsked(r) => DurableAsked(r)'
  BY <1>0, LogKept DEF DurableAsked, Landed
<1>6. \A r \in RequestIds : t.subs[r] # "lease" /\ (t.subs[r] = "durable" => DurableAsked(r)')
  BY <1>1, <1>3, <1>5 DEF LeasesKnown
<1> QED
  BY <1>1, <1>3, <1>4, <1>5, <1>6 DEF LeasesKnown, Served, DrainPcs

LEMMA StepKeepsKnown ==
  ASSUME RunInv, BindingsInv, Step, NEW u \in Workers,
         wk[u].up => LeasesKnown(wk[u])
  PROVE  wk'[u].up => LeasesKnown(wk[u])'
<1>0. TypeInv /\ LogStep /\ wk[u] \in WorkerState /\ wk \in [Workers -> WorkerState]
  BY StepGrows, StateOf DEF RunInv, ClaimInv, TypeInv, TypeOK
<1>1. ASSUME wk[u].up, WorkerStep(u) PROVE LeasesKnown(wk[u])'
  BY <1>1, WorkerKeepsKnown
<1>2. ASSUME wk[u].up, ClaimWon(u) PROVE LeasesKnown(wk[u])'
  BY <1>2, WonKeepsKnown
<1>3. ASSUME Gone(u) PROVE ~wk'[u].up
  BY <1>3 DEF Gone
<1>4. ASSUME wk[u].up, wk'[u] = wk[u] PROVE LeasesKnown(wk[u])'
  <2>1. Frame(wk[u], wk'[u]) /\ Names(wk[u], wk'[u]) /\ DrainMode(wk[u], wk'[u])
    BY <1>0, <1>4 DEF Frame, Names, DrainMode
  <2>2. ~(Landed /\ Newest.topic = "bound" /\ Newest.claim = wk[u].claim)
    BY <1>4, NotTheBinder
  <2> QED
    BY <1>0, <1>4, <2>1, <2>2, KnownKept
<1>5. ASSUME wk[u].up, Claimant(wk[u], wk'[u]) PROVE LeasesKnown(wk[u])'
  <2>1. Frame(wk[u], wk'[u]) /\ Names(wk[u], wk'[u]) /\ DrainMode(wk[u], wk'[u])
    BY <1>5 DEF Claimant, DrainMode, DrainPcs
  <2>2. ~(Landed /\ Newest.topic = "bound" /\ Newest.claim = wk[u].claim)
    BY <2>1, NotTheBinder DEF Frame
  <2> QED
    BY <1>0, <1>5, <2>1, <2>2, KnownKept
<1>6. wk'[u].up => wk[u].up
  <2>1. ASSUME NEW w \in Workers, WorkerStep(w) PROVE wk'[u].up => wk[u].up
    BY <1>0, <2>1 DEF WorkerStep, ControlMoves
  <2>2. ASSUME NEW w \in Workers, ClaimWon(w) \/ Gone(w) PROVE wk'[u].up => wk[u].up
    BY <1>0, <2>2 DEF ClaimWon, Gone
  <2>3. ASSUME NEW x \in Actors, ReportMoves(x) PROVE wk'[u].up => wk[u].up
    BY <1>0, <2>3 DEF ReportMoves, ReportGoesOn, ReportIsOver, Claimant, Frame
  <2> QED
    BY <2>1, <2>2, <2>3 DEF Step, Probed, ReportBegins, Asked
<1>7. \/ WorkerStep(u) \/ ClaimWon(u) \/ Gone(u) \/ wk'[u] = wk[u]
      \/ Claimant(wk[u], wk'[u])
  <2>1. ASSUME NEW w \in Workers, WorkerStep(w), w # u PROVE wk'[u] = wk[u]
    BY <1>0, <2>1 DEF WorkerStep
  <2>2. ASSUME NEW w \in Workers, ClaimWon(w) \/ Gone(w), w # u PROVE wk'[u] = wk[u]
    BY <1>0, <2>2 DEF ClaimWon, Gone
  <2>3. ASSUME NEW x \in Actors, ReportMoves(x)
        PROVE  wk'[u] = wk[u] \/ Claimant(wk[u], wk'[u])
    BY <1>0, <2>3 DEF ReportMoves, ReportGoesOn, ReportIsOver
  <2> QED
    BY <2>1, <2>2, <2>3 DEF Step, Probed, ReportBegins, Asked
<1> QED
  BY <1>1, <1>2, <1>3, <1>4, <1>5, <1>6, <1>7

-----------------------------------------------------------------------------
(* No lease is bound twice.  Whoever binds one has read every binding of   *)
(* the claims below its own, each ended by then and its leases void, and   *)
(* holds the newest claim itself.                                          *)

LEMMA BoundOnce ==
  ASSUME RunInv, BindingsInv, Step, Landed, Newest.topic = "bound",
         \A w \in Workers : wk[w].up => LeasesKnown(wk[w]),
         NEW i \in 1..Len(log), log[i].topic = "bound", log[i].rid = Newest.rid
  PROVE  FALSE
<1>1. PICK w \in Workers :
        /\ Binding(wk[w], wk'[w], Newest)
        /\ wk[w].up /\ wk[w].claim \in AllClaims
        /\ Endings(log, wk[w].claim, Len(log)) = {}
  BY NewBinding
<1> DEFINE v == wk[w]
           r == log[i].rid
           b == log[i].claim
<1>2. /\ r \in RequestIds \ v.bound /\ v.pc = "take" /\ v.mode = "ITERATION"
      /\ v.subs[r] \in {"none", "lease"}
      /\ ~(v.subs[r] = "none" /\ IsVoid(v, r))
  BY <1>1 DEF Binding
<1>3. LeasesKnown(v)
  BY <1>1
<1>4. v.folded /\ v.subs[r] = "none"
  BY <1>2, <1>3 DEF LeasesKnown, DrainPcs
<1>5. ~Void(log, r, v.claim - 1)
  BY <1>2, <1>4 DEF IsVoid
<1>6. b # v.claim
  BY <1>2, <1>3 DEF LeasesKnown
<1>7. /\ Readable(log[i]) /\ b \in AllClaims /\ b < i /\ Endings(log, b, i) = {}
      /\ ClaimsExclusive /\ Len(log) \in Nat
  <2>1. Readable(log[i]) /\ b \in AllClaims /\ b < i /\ Endings(log, b, i) = {}
    BY DEF BindingsInv
  <2> QED
    BY <2>1 DEF RunInv, ClaimInv, TypeInv, TypeOK
<1>8. b \in 1..Len(log) /\ v.claim \in 1..Len(log)
  BY <1>1, <1>7 DEF AllClaims, Claims
<1>9. CASE b < v.claim
  <2>1. PICK j \in Endings(log, b, v.claim - 1) : TRUE
    BY <1>1, <1>7, <1>9 DEF ClaimsExclusive
  <2>2. j \in (b + 1)..(v.claim - 1) /\ j \notin Endings(log, b, i)
    BY <1>7 DEF Endings
  <2>3. j > i
    BY <1>7, <1>8, <2>1, <2>2 DEF Endings
  <2>4. i \in 1..(v.claim - 1) /\ b \in Claims(log, v.claim - 1)
    BY <1>7, <1>8, <2>2, <2>3 DEF AllClaims, Claims
  <2> QED
    BY <1>5, <1>7, <2>1, <2>4 DEF Void
<1>10. CASE b > v.claim
  <2>1. Endings(log, v.claim, b - 1) # {}
    BY <1>1, <1>7, <1>10 DEF ClaimsExclusive
  <2>2. Endings(log, v.claim, b - 1) \subseteq Endings(log, v.claim, Len(log))
    BY <1>7, <1>8 DEF Endings
  <2> QED
    BY <1>1, <2>1, <2>2
<1> QED
  BY <1>6, <1>8, <1>9, <1>10

(* What a node says fired or expired its writer had been asked for, or had *)
(* bound.                                                                  *)
LEMMA NodeServes ==
  ASSUME RunInv, Step, Landed, IsNode(Newest),
         \A w \in Workers : wk[w].up => LeasesKnown(wk[w]),
         NEW r \in Newest.fired \cup Newest.expired
  PROVE  Served(r, Newest.claim)
<1>0. TypeInv
  BY DEF RunInv, ClaimInv
<1>1. ~UNCHANGED log /\ \A e \in Record : Send(e) => Newest = e
  BY <1>0, Sent DEF Landed, Newest, TypeInv, TypeOK
<1>2. PICK w \in Workers : WorkerStep(w)
  BY <1>0, NewNode
<1>3. PICK e \in Record : Send(e) /\ Writes(wk[w], wk'[w], e)
  BY <1>1, <1>2 DEF WorkerStep, LogMoves
<1>4. Newest = e /\ e.topic \in {"commit", "stopped"}
  BY <1>1, <1>3 DEF IsNode
<1>5. /\ e.claim = wk[w].claim
      /\ e.fired = wk[w].under.fired /\ e.expired = wk[w].under.expired
  BY <1>3, <1>4 DEF Writes
<1>6. LeasesKnown(wk[w])
  BY <1>2 DEF WorkerStep, ControlMoves
<1> QED
  BY <1>4, <1>5, <1>6 DEF LeasesKnown

LEMMA StepKeepsLeases ==
  ASSUME RunInv, LeasesInv, Step
  PROVE  LeasesBound'
<1>0. TypeInv /\ LogStep /\ Len(log) \in Nat
  BY StepGrows, LogKept DEF RunInv, ClaimInv
<1>1. /\ BindingsInv /\ LeasesBound
      /\ \A w \in Workers : wk[w].up => LeasesKnown(wk[w])
  BY DEF LeasesInv
<1>2. ASSUME NEW i \in 1..Len(log'), NEW j \in 1..Len(log'),
             log'[i].topic = "bound", log'[j].topic = "bound", log'[i].rid = log'[j].rid
      PROVE  i = j
  <2>1. ASSUME NEW a \in 1..Len(log), NEW b \in 1..Len(log'), b \notin 1..Len(log),
               log'[a].topic = "bound", log'[b].topic = "bound", log'[a].rid = log'[b].rid
        PROVE  FALSE
    <3>1. Landed /\ Newest = log'[b] /\ log'[a] = log[a]
      BY <1>0, <2>1, LogKept DEF Landed, Newest
    <3> QED
      BY <1>1, <2>1, <3>1, BoundOnce
  <2>2. CASE i \in 1..Len(log) /\ j \in 1..Len(log)
    BY <1>0, <1>1, <1>2, <2>2, LogKept DEF LeasesBound
  <2>3. CASE i \notin 1..Len(log) /\ j \notin 1..Len(log)
    BY <1>0, <2>3, LogKept DEF Landed
  <2> QED
    BY <1>2, <2>1, <2>2, <2>3
<1>3. ASSUME NEW n \in Nodes', NEW r \in log'[n].fired \cup log'[n].expired
      PROVE  \E k \in 1..(n - 1) :
               \/ log'[k].topic = "subscribe" /\ log'[k].rid = r /\ log'[k].body = "durable"
               \/ log'[k].topic = "bound" /\ log'[k].rid = r /\ log'[k].claim = log'[n].claim
  <2>0. n \in 1..Len(log') /\ IsNode(log'[n])
    BY DEF Nodes
  <2>1. CASE n \in 1..Len(log)
    <3>1. log'[n] = log[n] /\ n \in Nodes
      BY <1>0, <2>0, <2>1, LogKept DEF Nodes
    <3>2. PICK k \in 1..(n - 1) :
            \/ log[k].topic = "subscribe" /\ log[k].rid = r /\ log[k].body = "durable"
            \/ log[k].topic = "bound" /\ log[k].rid = r /\ log[k].claim = log[n].claim
      BY <1>1, <1>3, <3>1 DEF LeasesBound
    <3>3. log'[k] = log[k]
      BY <1>0, <2>1, LogKept
    <3> QED
      BY <3>1, <3>2, <3>3
  <2>2. CASE n \notin 1..Len(log)
    <3>1. Landed /\ n = Len(log) + 1 /\ Newest = log'[n]
      BY <1>0, <2>0, <2>2, LogKept DEF Landed, Newest
    <3>2. Served(r, log'[n].claim)
      BY <1>1, <1>3, <2>0, <3>1, NodeServes
    <3>3. PICK k \in 1..Len(log) :
            \/ log[k].topic = "subscribe" /\ log[k].rid = r /\ log[k].body = "durable"
            \/ log[k].topic = "bound" /\ log[k].rid = r /\ log[k].claim = log'[n].claim
      BY <3>2 DEF Served, DurableAsked, BoundTo, BindingOf
    <3>4. log'[k] = log[k] /\ k \in 1..(n - 1)
      BY <1>0, <3>1, LogKept
    <3> QED
      BY <3>3, <3>4
  <2> QED
    BY <2>1, <2>2
<1> QED
  BY <1>2, <1>3 DEF LeasesBound

(* A lease is one claim's, whatever is sent again, withdrawn, or read by a *)
(* successor: its id is bound at most once on the log, and a node names as *)
(* fired or expired only a durable subscription, or a lease bound to its   *)
(* own claim below it.                                                     *)
THEOREM LeasesAreBound == Spec => []LeasesBound
<1> DEFINE Inv == RunInv /\ LeasesInv
<1>1. Init => Inv
  <2> SUFFICES ASSUME Init PROVE LeasesInv
    BY InitRunInv
  <2>1. Len(log) = 0 /\ \A w \in Workers : wk[w] = NewWorker
    BY DEF Init
  <2>2. BindingsInv /\ LeasesBound
    BY <2>1 DEF BindingsInv, LeasesBound, Nodes
  <2>3. /\ NewWorker.pc = "idle" /\ NewWorker.bound = {}
        /\ NewWorker.subs = [r \in RequestIds |-> "none"]
        /\ NewWorker.under.fired = {} /\ NewWorker.under.expired = {}
    BY DEF NewWorker, NoNode
  <2>4. LeasesKnown(NewWorker)
    BY <2>1, <2>3 DEF LeasesKnown, DrainPcs
  <2> QED
    BY <2>1, <2>2, <2>4 DEF LeasesInv
<1>2. Inv /\ [Next]_vars => Inv'
  <2> SUFFICES ASSUME RunInv, LeasesInv, [Next]_vars PROVE Inv'
    OBVIOUS
  <2>1. Step
    BY NextStep DEF RunInv, ClaimInv
  <2>2. BindingsInv'
    BY <2>1, StepKeepsBindings DEF LeasesInv
  <2>3. ASSUME NEW u \in Workers, wk'[u].up PROVE LeasesKnown(wk[u])'
    BY <2>1, <2>3, StepKeepsKnown DEF LeasesInv
  <2>4. RunInv' /\ LeasesBound'
    BY <2>1, NextRunInv, StepKeepsLeases
  <2> QED
    BY <2>2, <2>3, <2>4 DEF LeasesInv
<1>3. Inv => LeasesBound
  BY DEF LeasesInv
<1> HIDE DEF Inv
<1> QED
  BY <1>1, <1>2, <1>3, PTL DEF Spec

-----------------------------------------------------------------------------
(* What a step does to the requests its worker holds: to the ids spent,    *)
(* the stops and the subscriptions, and to how far it has read them.       *)

(* A worker that may register what it reads, and iterate. *)
Ready(s) == s.phase = "live" /\ s.mode = "ITERATION" /\ s.folded

(* What only such a worker does. *)
Serving(s) ==
  \/ s.op \in {"commit", "heartbeat"} \/ s.pc = "beat"
  \/ s.op # "none" /\ s.mode = "ITERATION"

Settled(s) ==
  /\ s.pc = "idle" => s.op = "none" /\ s.mode = "ITERATION"
  /\ s.pc \in DrainPcs => s.op # "none"

Unclaimed(s) == s.claim = 0 \/ s.pc = "answers"

Bare(s) ==
  /\ s.mark = 0 /\ s.spent = {} /\ s.op = "none" /\ s.mode = "ITERATION" /\ ~s.folded
  /\ \A r \in RequestIds : s.stops[r] = "none" /\ s.subs[r] = "none"

SameAsks(s, t) ==
  /\ t.spent = s.spent /\ t.subs = s.subs /\ t.stops = s.stops
  /\ t.mark = s.mark /\ t.drained = s.drained

(* A decision holds a stop that was pending, and loses none. *)
Keeps(v, t) ==
  /\ t.spent = v.spent /\ t.subs = v.subs /\ t.mark = v.mark
  /\ \A r \in RequestIds : t.stops[r] = "none" <=> v.stops[r] = "none"
  /\ \/ t.drained = v.drained
     \/ v.pc = "take" /\ Undrained(v) = {} /\ t.drained = v.w

Folds(v, t) ==
  /\ v.pc = "answers" /\ t.pc = "idle" /\ t.folded
  /\ t.spent = Spent(log, v.claim - 1) /\ t.drained = 0
  /\ t.subs = v.subs /\ t.stops = v.stops /\ t.mark = v.mark

Expires(v, t) ==
  /\ t.mark = v.mark /\ t.drained = v.drained /\ t.stops = v.stops
  /\ v.spent \subseteq t.spent
  /\ \A r \in t.spent : r \in v.spent \/ (r \in RequestIds /\ v.subs[r] = "lease")
  /\ \A r \in RequestIds : t.subs[r] = v.subs[r] \/ (v.subs[r] = "lease" /\ r \in t.spent)

(* The stop and the subscription of a spent id are dropped. *)
Drops(v, t, r) ==
  /\ t.spent = v.spent \cup {r}
  /\ \A q \in RequestIds :
       /\ t.subs[q] = IF q = r THEN "none" ELSE v.subs[q]
       /\ t.stops[q] = IF q # r \/ v.stops[q] = "held" THEN v.stops[q] ELSE "none"

Naks(r) == Send([Blank EXCEPT !.topic = "nak", !.rid = r])

(* The cases of take, for the record at seq k. *)
Taken(v, t, k) ==
  LET e == log[k]
      same == t.spent = v.spent /\ t.subs = v.subs /\ t.stops = v.stops
  IN  \/ Skipped(v, e, k) /\ same /\ UNCHANGED log
      \/ /\ TakesStop(v, e) /\ UNCHANGED log
         /\ t.spent = v.spent /\ t.subs = v.subs
         /\ t.stops = [v.stops EXCEPT ![e.rid] = e.body]
      \/ TakesWithdraw(v, e) /\ Drops(v, t, e.rid) /\ UNCHANGED log
      \/ /\ VoidLease(v, e) /\ UNCHANGED log
         /\ t.spent = v.spent \cup {e.rid} /\ t.subs = v.subs /\ t.stops = v.stops
      \/ /\ Accepted(v, e)
         /\ t.spent = v.spent /\ t.stops = v.stops
         /\ t.subs = [v.subs EXCEPT ![e.rid] = e.body]
      \/ Refused(v, e, k) /\ e.rid = NoId /\ same /\ Naks(NoId)
      \/ Refused(v, e, k) /\ e.rid # NoId /\ Drops(v, t, e.rid) /\ Naks(e.rid)

Takes(v, t) ==
  /\ v.pc = "take" /\ t.pc = "take"
  /\ \E k \in Undrained(v) :
       IsNext(v, k) /\ t.mark = k /\ t.drained = k /\ Taken(v, t, k)

AsksMove(v, t) == Keeps(v, t) \/ Folds(v, t) \/ Expires(v, t) \/ Takes(v, t)

RetiresOf(v) ==
  v.pc = "take" /\ v.w = Len(log) /\ Undrained(v) = {} /\ ~Serves(v)

Modes(w) ==
  LET v == wk[w]
      t == wk'[w]
  IN  /\ t.pc # "answers" /\ (t.folded = v.folded \/ Folds(v, t))
      /\ Ready(t) => Ready(v) \/ Folds(v, t) \/ t.failed
      /\ Serving(t) => Ready(t)
      /\ Settled(t)
      /\ t.phase = "stopped" => v.phase = "stopped" \/ RetiresOf(v)

(* What the worker of state v may be at. *)
Sound(v) == (Serving(v) => Ready(v)) /\ Settled(v)

LEMMA SameKeeps ==
  ASSUME NEW v, NEW t, SameAsks(v, t)
  PROVE  Keeps(v, t) /\ AsksMove(v, t)
BY DEF SameAsks, Keeps, AsksMove

(* A step inside a call. *)
LEMMA GoesOn ==
  ASSUME NEW w, Sound(wk[w]),
         LET v == wk[w]
             t == wk'[w]
         IN  /\ t.op = v.op /\ t.mode = v.mode /\ t.phase = v.phase
             /\ t.folded = v.folded
             /\ v.pc \in DrainPcs /\ t.pc \in {"drain", "take", "sample", "send", "beat"}
             /\ t.pc = "beat" => v.pc = "beat" \/ v.op = "heartbeat"
  PROVE  Modes(w)
BY DEF Modes, Sound, Serving, Ready, Settled, Folds, DrainPcs

(* A step into one. *)
LEMMA Enters ==
  ASSUME NEW w,
         LET v == wk[w]
             t == wk'[w]
         IN  /\ t.pc = "drain" /\ t.op # "none" /\ t.phase = v.phase /\ t.folded = v.folded
             /\ \/ t.mode = "ITERATION" /\ Ready(v)
                \/ t.mode = "EXIT" /\ t.op \in {"exitNode", "exitCas"}
  PROVE  Modes(w)
BY DEF Modes, Serving, Ready, Settled, Folds, DrainPcs

(* A step that returns from one, or never entered one. *)
LEMMA Returns ==
  ASSUME NEW w,
         LET v == wk[w]
             t == wk'[w]
         IN  /\ t.pc = "idle" /\ t.op = "none" /\ t.mode = "ITERATION"
             /\ t.folded = v.folded \/ Folds(v, t)
             /\ t.phase = "live" => Ready(v) \/ Folds(v, t) \/ t.failed \/ ~t.folded
             /\ t.phase = "stopped" => v.phase = "stopped" \/ RetiresOf(v)
  PROVE  Modes(w)
BY DEF Modes, Serving, Ready, Settled, Folds, DrainPcs

-----------------------------------------------------------------------------
(* A claimant holds nothing, and reads nothing. *)

Waits(v, t) ==
  /\ t.spent = v.spent /\ t.subs = v.subs /\ t.stops = v.stops /\ t.mark = v.mark
  /\ t.folded = v.folded /\ t.pc \notin DrainPcs \cup {"beat"}
  /\ t.claim = v.claim \/ t.claim = Len(log) + 1
  /\ \/ t.op = v.op /\ t.mode = v.mode
     \/ t.op = "none" /\ t.mode = "ITERATION"

LEMMA ClaimantAsks ==
  ASSUME TypeInv, NEW w \in Workers,
         \/ Construct(w) \/ ResumePoint(w) \/ ReadLatest(w) \/ ClaimCas(w)
         \/ ClaimStarved(w) \/ ProbeLatest(w) \/ ProbeHeld(w)
  PROVE  /\ Waits(wk[w], wk'[w])
         /\ wk[w].pc \in ClaimPcs \/ (wk[w].phase = "new" /\ wk[w].up)
<1> DEFINE v == wk[w]
           t == wk'[w]
           i == Idle(v)
           AtHead == [v EXCEPT !.pc = "claim", !.phase = "lost", !.follow = TRUE]
           AtNode(n) == [v EXCEPT !.pc = "claim", !.phase = "lost", !.node = n]
           At0(W, n, k) == [v EXCEPT !.pc = "latest", !.w = W, !.node = n, !.tries = k]
           Goes(p) == [v EXCEPT !.pc = p]
           Sees(x) == [v EXCEPT !.pc = "held", !.seen = x]
           c == Len(log) + 1
           Won(d) == [v EXCEPT !.pc = "answers", !.phase = "live", !.claim = c,
                               !.drained = d, !.tries = 0]
           raised == [i EXCEPT !.phase = "raised"]
<1>1. /\ v \in WorkerState
      /\ v.pc \in ClaimPcs \/ (v.phase = "new" /\ v.up)
  BY StateOf, ZenonT(60)
  DEF ClaimPcs, Construct, ResumePoint, ReadLatest, ClaimCas, ClaimStarved,
      ProbeLatest, ProbeHeld, At
<1>2. \/ Become(w, AtHead) \/ \E n : Become(w, AtNode(n))
      \/ \E W, n, k : Become(w, At0(W, n, k))
      \/ \E p \in ClaimPcs : Become(w, Goes(p))
      \/ \E x : Become(w, Sees(x))
      \/ \E d : Become(w, Won(d))
      \/ Become(w, raised) \/ Become(w, i)
  <2>1. CASE Construct(w)
    BY <2>1 DEF Construct
  <2>2. CASE ResumePoint(w)
    BY <2>2, ZenonT(60) DEF ResumePoint, Raise
  <2>3. CASE ReadLatest(w) \/ ProbeLatest(w)
    BY <2>3 DEF ReadLatest, ProbeLatest, ClaimPcs
  <2>4. CASE ClaimCas(w)
    BY <2>4 DEF ClaimCas, ClaimPcs
  <2>5. CASE ClaimStarved(w) \/ ProbeHeld(w)
    BY <2>5 DEF ClaimStarved, ProbeHeld, Raise, ClaimPcs
  <2> QED
    BY <2>1, <2>2, <2>3, <2>4, <2>5
<1>3. /\ Waits(v, AtHead)
      /\ \A n : Waits(v, AtNode(n))
      /\ \A W, n, k : Waits(v, At0(W, n, k))
      /\ \A p \in ClaimPcs : Waits(v, Goes(p))
      /\ \A x : Waits(v, Sees(x))
      /\ \A d : Waits(v, Won(d))
  <2> HIDE DEF v
  <2> QED
    BY <1>1 DEF WorkerState, ClaimPcs, DrainPcs, Waits
<1>4. /\ i \in WorkerState /\ Rests(v, i) /\ i.stops = v.stops /\ i.pc = "idle"
      /\ i.op = "none" /\ i.mode = "ITERATION" /\ i.folded = v.folded
      /\ i.claim = v.claim
  BY <1>1, IdleType, IdleRests, IdleFrame DEF Frame
<1>5. Waits(v, i) /\ Waits(v, raised)
  <2> HIDE DEF i, v
  <2> QED
    BY <1>4 DEF WorkerState, Rests, Waits, DrainPcs
<1> HIDE DEF AtHead, AtNode, At0, Goes, Sees, Won, raised, i
<1>6. Waits(v, t)
  <2>1. \A s : Become(w, s) /\ Waits(v, s) => Waits(v, t)
    BY Becomes
  <2> HIDE DEF v, t
  <2>2. CASE Become(w, AtHead) \/ \E n : Become(w, AtNode(n))
    BY <1>3, <2>1, <2>2
  <2>3. CASE \E W, n, k : Become(w, At0(W, n, k))
    <3> PICK W, n, k : Become(w, At0(W, n, k))
      BY <2>3
    <3>1. Waits(v, At0(W, n, k))
      BY <1>3
    <3> QED
      BY <2>1, <3>1
  <2>4. CASE \E p \in ClaimPcs : Become(w, Goes(p))
    BY <1>3, <2>1, <2>4
  <2>5. CASE \E x : Become(w, Sees(x))
    BY <1>3, <2>1, <2>5
  <2>6. CASE \E d : Become(w, Won(d))
    BY <1>3, <2>1, <2>6
  <2>7. CASE Become(w, raised) \/ Become(w, i)
    BY <1>5, <2>1, <2>7
  <2> QED
    BY <1>2, <2>2, <2>3, <2>4, <2>5, <2>6, <2>7
<1> QED
  BY <1>1, <1>6

LEMMA ReportAsks ==
  ASSUME TypeInv, ReportsInv, NEW x \in Actors, ReportStep(x), NEW w \in Workers
  PROVE  \/ wk'[w] = wk[w]
         \/ Waits(wk[w], wk'[w]) /\ wk[w].pc \in ClaimPcs
<1> DEFINE v == wk[x]
           i == Idle(v)
           back == [v EXCEPT !.pc = "claim", !.seen = 0]
           raised == [i EXCEPT !.phase = "raised"]
<1>1. \/ UNCHANGED wk
      \/ x \in Workers /\ (Become(x, i) \/ Become(x, back) \/ Become(x, raised))
  BY DEF ReportStep, ReportRead, ReportCas, ReportStarved, ReportEnds
<1>2. x \in Workers => v.pc \in ClaimPcs
  <2>1. rep[x].pc # "idle"
    BY ReportStepStep DEF ReportMoves
  <2> QED
    BY <2>1 DEF ReportsInv, ClaimPcs
<1>3. CASE UNCHANGED wk
  BY <1>3
<1>4. CASE x \in Workers /\ (Become(x, i) \/ Become(x, back) \/ Become(x, raised))
  <2> HIDE DEF i, back, raised
  <2>0. PICK s \in {i, back, raised} : Become(x, s)
    BY <1>4
  <2>1. v \in WorkerState /\ wk'[x] = s /\ \A u \in Workers : u # x => wk'[u] = wk[u]
    <3>1. wk' = [wk EXCEPT ![x] = wk'[x]] /\ wk'[x] = s
      BY <1>4, <2>0, Becomes
    <3>2. wk \in [Workers -> WorkerState] /\ v \in WorkerState
      BY <1>4 DEF TypeInv, TypeOK
    <3> QED
      BY <3>1, <3>2
  <2>2. /\ i \in WorkerState /\ Rests(v, i) /\ i.stops = v.stops /\ i.pc = "idle"
        /\ i.op = "none" /\ i.mode = "ITERATION" /\ i.folded = v.folded
        /\ i.claim = v.claim
    BY <2>1, IdleType, IdleRests, IdleFrame DEF i, Frame
  <2>3. Waits(v, i) /\ Waits(v, raised)
    <3> HIDE DEF v
    <3> QED
      BY <2>2 DEF raised, WorkerState, Rests, Waits, DrainPcs
  <2>4. Waits(v, back)
    <3> HIDE DEF v
    <3> QED
      BY <2>1 DEF back, WorkerState, Waits, DrainPcs
  <2> QED
    BY <1>2, <1>4, <2>0, <2>1, <2>3, <2>4
<1> QED
  BY <1>1, <1>3, <1>4

-----------------------------------------------------------------------------
(* The driver's calls, and the fold of a claim just won. *)

Moves(w) == AsksMove(wk[w], wk'[w]) /\ Modes(w)

LEMMA CallAsks ==
  ASSUME TypeInv, NEW w \in Workers, Sound(wk[w]),
         \/ Emit(w) \/ SetRegister(w) \/ Include(w) \/ Rewind(w) \/ Discard(w)
  PROVE  Moves(w)
<1> DEFINE v == wk[w]
           t == wk'[w]
           Pends(p) == [v EXCEPT !.pending = p]
           Sets(g) == [v EXCEPT !.reg = g]
           Like(s) == /\ SameAsks(v, s) /\ s.pc = v.pc /\ s.op = v.op /\ s.mode = v.mode
                      /\ s.phase = v.phase /\ s.folded = v.folded
<1>1. /\ v \in WorkerState /\ v.pc = "idle" /\ v.phase = "live" /\ v.folded
      /\ v.op = "none" /\ v.mode = "ITERATION"
  <2>1. Callable(w, {"live"})
    BY DEF Emit, SetRegister, Include, Rewind, Discard, Call
  <2>2. v.pc = "idle" /\ v.phase = "live" /\ v \in WorkerState
    BY <2>1, CallStarts
  <2> QED
    BY <2>1, <2>2 DEF Callable, Sound, Settled
<1>2. \/ \E p : t \in {Pends(p), Sets(p), Rewound(v, p)}
      \/ t = Tear(v)
  BY Becomes DEF Emit, SetRegister, Include, Rewind, Discard
<1>3. \A p : Like(Pends(p)) /\ Like(Sets(p)) /\ Like(Rewound(v, p))
  <2> HIDE DEF v
  <2> QED
    BY <1>1 DEF SameAsks, WorkerState, Rewound
<1>4. /\ SameAsks(v, Tear(v)) /\ Tear(v).pc = "idle" /\ Tear(v).op = "none"
      /\ Tear(v).mode = "ITERATION" /\ Tear(v).phase = "discarded"
      /\ Tear(v).folded = v.folded
  <2> HIDE DEF v
  <2> QED
    BY <1>1, TearRests, TearFrame DEF SameAsks, Frame
<1> HIDE DEF Pends, Sets
<1>5. Like(t) \/ t = Tear(v)
  BY <1>2, <1>3
<1>6. /\ SameAsks(v, t) /\ t.pc = "idle" /\ t.op = "none" /\ t.mode = "ITERATION"
      /\ t.phase \in {"live", "discarded"} /\ t.folded = v.folded
  BY <1>1, <1>4, <1>5
<1>7. Modes(w)
  BY <1>1, <1>6, Returns DEF Ready
<1> QED
  BY <1>6, <1>7, SameKeeps DEF Moves

LEMMA BeginAsks ==
  ASSUME TypeInv, NEW w \in Workers, Sound(wk[w]),
         \/ BeginCommit(w) \/ BeginHeartbeat(w) \/ BeginRetire(w) \/ BeginStopped(w)
         \/ RetryStarved(w) \/ FoldRaises(w)
  PROVE  Moves(w)
<1> DEFINE v == wk[w]
           t == wk'[w]
<1>1. v \in WorkerState
  BY StateOf
<1>2. PICK op, mode, under :
        /\ t = Drains(v, op, mode, under) /\ op # "none"
        /\ \/ mode = "ITERATION" /\ Ready(v)
           \/ mode = "EXIT" /\ op \in {"exitNode", "exitCas"}
  <2>1. CASE BeginCommit(w) \/ BeginHeartbeat(w) \/ BeginRetire(w)
    <3>1. Callable(w, {"live"})
      BY <2>1 DEF BeginCommit, BeginHeartbeat, BeginRetire, Call
    <3>2. Ready(v)
      BY <3>1, CallStarts DEF Callable, Sound, Settled, Ready
    <3> QED
      BY <2>1, <3>2, Becomes DEF BeginCommit, BeginHeartbeat, BeginRetire
  <2>2. CASE BeginStopped(w) \/ RetryStarved(w) \/ FoldRaises(w)
    BY <2>2, Becomes DEF BeginStopped, RetryStarved, FoldRaises
  <2> QED
    BY <2>1, <2>2
<1>3. /\ SameAsks(v, t) /\ t.pc = "drain" /\ t.phase = v.phase /\ t.op = op
      /\ t.mode = mode /\ t.folded = v.folded
  <2> HIDE DEF v, t
  <2> QED
    BY <1>1, <1>2, DrainsRests, DrainsFrame DEF SameAsks, Rests, Frame
<1>4. Modes(w)
  BY <1>2, <1>3, Enters
<1> QED
  BY <1>3, <1>4, SameKeeps DEF Moves

LEMMA FoldAsks ==
  ASSUME TypeInv, NEW w \in Workers, FoldAnswers(w)
  PROVE  Moves(w) /\ Folds(wk[w], wk'[w])
<1> DEFINE v == wk[w]
           t == wk'[w]
           i == Idle(v)
           p == Spent(log, v.claim - 1)
           s == [i EXCEPT !.folded = TRUE, !.drained = 0, !.spent = p]
<1>1. t = s /\ v.pc = "answers" /\ v \in WorkerState
  BY Becomes, StateOf DEF FoldAnswers, At
<1>2. /\ i \in WorkerState /\ Rests(v, i) /\ i.phase = v.phase /\ i.stops = v.stops
      /\ i.pc = "idle" /\ i.op = "none" /\ i.mode = "ITERATION"
  BY <1>1, IdleType, IdleRests
<1>3. /\ s.folded = TRUE /\ s.drained = 0 /\ s.spent = p /\ s.subs = i.subs
      /\ s.stops = i.stops /\ s.mark = i.mark /\ s.phase = i.phase /\ s.pc = i.pc
      /\ s.op = i.op /\ s.mode = i.mode
  <2> HIDE DEF i, p
  <2> QED
    BY <1>2 DEF WorkerState
<1>4. Folds(v, t)
  BY <1>1, <1>2, <1>3 DEF Folds, Rests
<1> HIDE DEF s, i
<1>5. /\ t.pc = "idle" /\ t.op = "none" /\ t.mode = "ITERATION" /\ t.phase = v.phase
  BY <1>1, <1>2, <1>3
<1>6. Modes(w)
  BY <1>4, <1>5, Returns
<1> QED
  BY <1>4, <1>6 DEF AsksMove, Moves

-----------------------------------------------------------------------------
(* The drain. *)

LEMMA DrainReadAsks ==
  ASSUME TypeInv, NEW w \in Workers, Sound(wk[w]), DrainRead(w)
  PROVE  Moves(w)
<1> DEFINE v == wk[w]
           t == wk'[w]
           i == Idle(v)
           W == Len(log)
           k == v.tries + 1
           released == [i EXCEPT !.phase = "released"]
           take == [v EXCEPT !.pc = "take", !.w = W, !.tries = k]
<1>1. v \in WorkerState /\ v.pc = "drain" /\ t \in {released, take}
  BY StateOf, Becomes DEF DrainRead, At
<1>2. /\ i \in WorkerState /\ SameAsks(v, i) /\ i.folded = v.folded
      /\ i.pc = "idle" /\ i.op = "none" /\ i.mode = "ITERATION"
  BY <1>1, IdleType, IdleRests, IdleFrame DEF Rests, SameAsks, Frame
<1>3. /\ SameAsks(v, released) /\ released.folded = v.folded /\ released.pc = "idle"
      /\ released.op = "none" /\ released.mode = "ITERATION"
      /\ released.phase = "released"
  <2> HIDE DEF i, v
  <2> QED
    BY <1>2 DEF WorkerState, SameAsks
<1>4. /\ SameAsks(v, take) /\ take.folded = v.folded /\ take.pc = "take"
      /\ take.op = v.op /\ take.mode = v.mode /\ take.phase = v.phase
  <2> HIDE DEF v, W, k
  <2> QED
    BY <1>1 DEF WorkerState, SameAsks
<1> HIDE DEF released, take, i
<1>5. CASE t = released
  <2>1. Modes(w)
    BY <1>3, <1>5, Returns
  <2> QED
    BY <1>3, <1>5, <2>1, SameKeeps DEF Moves
<1>6. CASE t = take
  <2>1. Modes(w)
    BY <1>1, <1>4, <1>6, GoesOn DEF DrainPcs
  <2> QED
    BY <1>4, <1>6, <2>1, SameKeeps DEF Moves
<1> QED
  BY <1>1, <1>5, <1>6

(* A call that raises out of an exit is remembered. *)
LEMMA RaisingAsks ==
  ASSUME TypeInv, NEW w \in Workers, Raising(w)
  PROVE  Moves(w)
<1> DEFINE v == wk[w]
           t == wk'[w]
<1>1. v \in WorkerState /\ t = Fails(v)
  BY RaisingIs
<1>2. /\ SameAsks(v, t) /\ t.pc = "idle" /\ t.op = "none" /\ t.mode = "ITERATION"
      /\ t.phase = v.phase /\ t.folded = v.folded
      /\ t.failed = (v.failed \/ (v.mode = "EXIT" /\ v.phase = "live"))
  BY <1>1, FailsType DEF SameAsks
<1>3. v.mode \in {"ITERATION", "EXIT"} /\ v.folded \in BOOLEAN
  BY <1>1 DEF WorkerState
<1> HIDE DEF v, t
<1>4. t.phase = "live" => Ready(v) \/ t.failed \/ ~t.folded
  BY <1>2, <1>3 DEF Ready
<1>5. Modes(w)
  BY <1>2, <1>4, Returns DEF v, t
<1> QED
  BY <1>2, <1>5, SameKeeps DEF Moves, v, t

(* Inside a drain, nothing but the requests moves. *)
Takings(v, t) ==
  /\ t.op = v.op /\ t.mode = v.mode /\ t.phase = v.phase /\ t.folded = v.folded
  /\ t.pc = "take"

LEMMA TakeAsks ==
  ASSUME TypeInv, NEW w \in Workers, Sound(wk[w]), TakeRecord(w)
  PROVE  Moves(w)
<1> DEFINE v == wk[w]
           t == wk'[w]
<1>1. v \in WorkerState /\ v.pc = "take" /\ UNCHANGED log
  BY StateOf DEF TakeRecord, At, Quiet
<1> PICK k \in Undrained(v) :
      LET e == log[k]
      IN  /\ IsNext(v, k)
          /\ \/ Skipped(v, e, k) /\ Become(w, Handled(v, k))
             \/ /\ TakesStop(v, e)
                /\ Become(w, [Handled(v, k) EXCEPT !.stops[e.rid] = e.body])
             \/ TakesWithdraw(v, e) /\ Become(w, SpendId(Handled(v, k), e.rid))
             \/ /\ VoidLease(v, e)
                /\ Become(w, [Handled(v, k) EXCEPT !.spent = @ \cup {e.rid}])
             \/ /\ Accepted(v, e) /\ ~Binds(v, e)
                /\ Become(w, [Handled(v, k) EXCEPT !.subs[e.rid] = e.body])
  BY DEF TakeRecord
<1> DEFINE e == log[k]
           r == log[k].rid
           b == log[k].body
           h == Handled(v, k)
           ss == [h.stops EXCEPT ![r] = b]
           us == [h.subs EXCEPT ![r] = b]
           p == h.spent \cup {r}
           Stops == [h EXCEPT !.stops = ss]
           Spends == [h EXCEPT !.spent = p]
           Subs == [h EXCEPT !.subs = us]
           Drop == SpendId(h, r)
<1>2. k \in 1..Len(log) /\ IsNext(v, k)
  BY UndrainedOnLog
<1>3. /\ h \in WorkerState /\ Takings(v, h) /\ h.mark = k /\ h.drained = k
      /\ h.spent = v.spent /\ h.subs = v.subs /\ h.stops = v.stops
  <2>1. h \in WorkerState /\ h.folded = v.folded
    BY <1>1, <1>2, HandledType, HandledStays DEF StaysTaking
  <2> QED
    BY <1>1, <2>1, HandledRests DEF Takings
<1>4. /\ Takings(v, Stops) /\ Stops.mark = k /\ Stops.drained = k
      /\ Stops.spent = v.spent /\ Stops.subs = v.subs /\ Stops.stops = ss
      /\ Takings(v, Spends) /\ Spends.mark = k /\ Spends.drained = k
      /\ Spends.spent = p /\ Spends.subs = v.subs /\ Spends.stops = v.stops
      /\ Takings(v, Subs) /\ Subs.mark = k /\ Subs.drained = k
      /\ Subs.spent = v.spent /\ Subs.subs = us /\ Subs.stops = v.stops
  <2> HIDE DEF h, v, ss, p, us
  <2> QED
    BY <1>3 DEF WorkerState, Takings
<1>5. r \in RequestIds =>
        Takings(v, Drop) /\ Drop.mark = k /\ Drop.drained = k /\ Drops(v, Drop, r)
  <2> SUFFICES ASSUME r \in RequestIds
               PROVE  /\ Takings(v, Drop) /\ Drop.mark = k /\ Drop.drained = k
                      /\ Drops(v, Drop, r)
    OBVIOUS
  <2> HIDE DEF h, v, r
  <2>1. Drop.folded = h.folded
    BY <1>3, SpendIdStays DEF StaysTaking
  <2>2. Takings(v, Drop) /\ Drop.mark = k /\ Drop.drained = k
    BY <1>3, <2>1, SpendIdRests DEF Takings
  <2>3. Drops(v, Drop, r)
    BY <1>3, SpendIdRests DEF Drops
  <2> QED
    BY <2>2, <2>3
<1>6. \/ Skipped(v, e, k) /\ t = h
      \/ TakesStop(v, e) /\ t = Stops
      \/ TakesWithdraw(v, e) /\ t = Drop
      \/ VoidLease(v, e) /\ t = Spends
      \/ Accepted(v, e) /\ t = Subs
  <2>1. CASE Skipped(v, e, k) /\ Become(w, h)
    BY <2>1, Becomes
  <2>2. CASE TakesStop(v, e) /\ Become(w, [h EXCEPT !.stops[r] = b])
    BY <2>2, Becomes
  <2>3. CASE TakesWithdraw(v, e) /\ Become(w, Drop)
    BY <2>3, Becomes
  <2>4. CASE VoidLease(v, e) /\ Become(w, [h EXCEPT !.spent = @ \cup {r}])
    BY <2>4, Becomes
  <2>5. CASE Accepted(v, e) /\ Become(w, [h EXCEPT !.subs[r] = b])
    BY <2>5, Becomes
  <2> QED
    BY <2>1, <2>2, <2>3, <2>4, <2>5
<1>7. TakesWithdraw(v, e) => r \in RequestIds
  BY DEF TakesWithdraw, Answerable
<1> HIDE DEF h, Stops, Spends, Subs, Drop
<1>8. Takings(v, t) /\ t.mark = k /\ t.drained = k
  BY <1>3, <1>4, <1>5, <1>6, <1>7
<1>9. Taken(v, t, k)
  BY <1>1, <1>3, <1>4, <1>5, <1>6, <1>7 DEF Taken
<1>10. Takes(v, t)
  BY <1>1, <1>2, <1>8, <1>9 DEF Takes, Takings
<1>11. Modes(w)
  BY <1>1, <1>8, GoesOn DEF Takings, DrainPcs
<1> QED
  BY <1>10, <1>11 DEF AsksMove, Moves

LEMMA WriteAsks ==
  ASSUME TypeInv, NEW w \in Workers, Sound(wk[w]), WriteAnswer(w)
  PROVE  Moves(w)
<1> DEFINE v == wk[w]
           t == wk'[w]
<1>1. v \in WorkerState /\ v.pc = "take" /\ Len(log) \in Nat
  BY StateOf DEF WriteAnswer, At
<1> PICK k \in Undrained(v) :
      LET e == log[k]
      IN  /\ IsNext(v, k)
          /\ \/ /\ Refused(v, e, k) /\ Naks(e.rid)
                /\ Become(w, [(IF e.rid = NoId THEN Handled(v, k)
                               ELSE SpendId(Handled(v, k), e.rid)) EXCEPT
                                 !.w = Len(log) + 1])
             \/ /\ Binds(v, e)
                /\ Become(w, [[Handled(v, k) EXCEPT !.subs[e.rid] = "lease",
                                  !.bound = @ \cup {e.rid}] EXCEPT !.w = Len(log) + 1])
             \/ Become(w, [v EXCEPT !.pc = "drain"])
  BY DEF WriteAnswer, Naks
<1> DEFINE e == log[k]
           r == log[k].rid
           n == Len(log) + 1
           h == Handled(v, k)
           x == IF r = NoId THEN h ELSE SpendId(h, r)
           Refusal == [x EXCEPT !.w = n]
           b == h.bound \cup {r}
           us == [h.subs EXCEPT ![r] = "lease"]
           y == [h EXCEPT !.subs = us, !.bound = b]
           Bound == [y EXCEPT !.w = n]
           Lost == [v EXCEPT !.pc = "drain"]
<1>2. k \in 1..Len(log) /\ IsNext(v, k) /\ r \in RequestIds \cup {NoId}
  BY UndrainedOnLog, UndrainedType
<1>3. /\ h \in WorkerState /\ Takings(v, h) /\ h.mark = k /\ h.drained = k
      /\ h.spent = v.spent /\ h.subs = v.subs /\ h.stops = v.stops
  <2>1. h \in WorkerState /\ h.folded = v.folded
    BY <1>1, <1>2, HandledType, HandledStays DEF StaysTaking
  <2> QED
    BY <1>1, <2>1, HandledRests DEF Takings
<1>4. /\ x \in WorkerState /\ Takings(v, x) /\ x.mark = k /\ x.drained = k
      /\ IF r = NoId THEN x = h ELSE Drops(v, x, r)
  <2>1. CASE r = NoId
    BY <1>3, <2>1
  <2>2. CASE r # NoId
    <3>1. r \in RequestIds /\ x = SpendId(h, r)
      BY <1>2, <2>2
    <3> HIDE DEF h, v, r, x
    <3>2. x \in WorkerState /\ x.folded = h.folded
      BY <1>3, <3>1, SpendIdType, SpendIdStays DEF StaysTaking
    <3>3. Takings(v, x) /\ x.mark = k /\ x.drained = k
      BY <1>3, <3>1, <3>2, SpendIdRests DEF Takings
    <3>4. Drops(v, x, r)
      BY <1>3, <3>1, SpendIdRests DEF Drops
    <3> QED
      BY <2>2, <3>2, <3>3, <3>4
  <2> QED
    BY <2>1, <2>2
<1> HIDE DEF x
<1>5. /\ Takings(v, Refusal) /\ Refusal.mark = k /\ Refusal.drained = k
      /\ Refusal.spent = x.spent /\ Refusal.subs = x.subs /\ Refusal.stops = x.stops
  <2> HIDE DEF v, n
  <2> QED
    BY <1>4 DEF WorkerState, Takings
<1>6. /\ Takings(v, Bound) /\ Bound.mark = k /\ Bound.drained = k
      /\ Bound.spent = v.spent /\ Bound.subs = us /\ Bound.stops = v.stops
  <2> HIDE DEF h, v, n, us, b
  <2>1. /\ DOMAIN y = DOMAIN h /\ Takings(v, y) /\ y.mark = k /\ y.drained = k
        /\ y.spent = v.spent /\ y.subs = us /\ y.stops = v.stops
    BY <1>3 DEF WorkerState, Takings
  <2> HIDE DEF y
  <2> QED
    BY <1>3, <2>1 DEF WorkerState, Takings
<1>7. /\ SameAsks(v, Lost) /\ Lost.op = v.op /\ Lost.mode = v.mode /\ Lost.phase = v.phase
      /\ Lost.folded = v.folded /\ Lost.pc = "drain"
  <2> HIDE DEF v
  <2> QED
    BY <1>1 DEF WorkerState, SameAsks
<1>8. CASE Refused(v, e, k) /\ Naks(r) /\ Become(w, Refusal)
  <2>1. t = Refusal
    BY <1>8, Becomes
  <2> HIDE DEF Refusal, h
  <2>2. Takings(v, t) /\ t.mark = k /\ t.drained = k
    BY <1>5, <2>1
  <2>3. CASE r = NoId
    <3>1. t.spent = v.spent /\ t.subs = v.subs /\ t.stops = v.stops
      BY <1>3, <1>4, <1>5, <2>1, <2>3
    <3>2. Taken(v, t, k)
      BY <1>8, <2>3, <3>1 DEF Taken
    <3> QED
      BY <1>1, <1>2, <2>2, <3>2, GoesOn DEF Takes, Takings, AsksMove, Moves, DrainPcs
  <2>4. CASE r # NoId
    <3>1. Drops(v, t, r)
      BY <1>4, <1>5, <2>1, <2>4 DEF Drops
    <3>2. Taken(v, t, k)
      BY <1>8, <2>4, <3>1 DEF Taken
    <3> QED
      BY <1>1, <1>2, <2>2, <3>2, GoesOn DEF Takes, Takings, AsksMove, Moves, DrainPcs
  <2> QED
    BY <2>3, <2>4
<1>9. CASE Binds(v, e) /\ Become(w, [[h EXCEPT !.subs[r] = "lease",
                                       !.bound = @ \cup {r}] EXCEPT !.w = n])
  <2>1. t = Bound
    BY <1>9, Becomes
  <2> HIDE DEF Bound
  <2>2. Takings(v, t) /\ t.mark = k /\ t.drained = k
    BY <1>6, <2>1
  <2>3. Accepted(v, e) /\ e.body = "lease"
    BY <1>9 DEF Binds
  <2>4. t.spent = v.spent /\ t.stops = v.stops /\ t.subs = [v.subs EXCEPT ![r] = e.body]
    BY <1>3, <1>6, <2>1, <2>3
  <2>5. Taken(v, t, k)
    BY <2>3, <2>4 DEF Taken
  <2> QED
    BY <1>1, <1>2, <2>2, <2>5, GoesOn DEF Takes, Takings, AsksMove, Moves, DrainPcs
<1>10. CASE Become(w, Lost)
  <2>1. t = Lost
    BY <1>10, Becomes
  <2> HIDE DEF Lost
  <2>2. Modes(w)
    BY <1>1, <1>7, <2>1, GoesOn DEF DrainPcs
  <2> QED
    BY <1>7, <2>1, <2>2, SameKeeps DEF Moves
<1> QED
  BY <1>8, <1>9, <1>10 DEF x

-----------------------------------------------------------------------------
(* Decisions, nodes and exits. *)

(* What a drain that has read everything goes on from. *)
Follows(v, d) ==
  /\ Keeps(v, d)
  /\ d.op = v.op /\ d.mode = v.mode /\ d.phase = v.phase /\ d.folded = v.folded

LEMMA DrainedFollows ==
  ASSUME TypeInv, NEW w \in Workers, wk[w].pc = "take", Undrained(wk[w]) = {}
  PROVE  DrainedTo(wk[w]) \in WorkerState /\ Follows(wk[w], DrainedTo(wk[w]))
<1> DEFINE v == wk[w]
<1>0. v \in WorkerState
  BY StateOf
<1>1. DrainedTo(v) \in WorkerState
  BY <1>0, DrainedToType
<1>2. Follows(v, DrainedTo(v))
  BY <1>0, DrainedToRests, DrainedToFrame DEF Follows, Keeps, Rests, Frame
<1> QED
  BY <1>1, <1>2

(* The states a decision leads to. *)
AfterEvaluation(d, u, p) == [d EXCEPT !.under = u, !.pc = p]

AfterDecision(d) == [d EXCEPT !.pc = "beat"]

LEMMA EvaluatedAsks ==
  ASSUME TypeInv, NEW w \in Workers, Sound(wk[w]),
         wk[w].pc \in DrainPcs, NEW d \in WorkerState, Follows(wk[w], d),
         NEW u, NEW p \in {"send", "sample"},
         wk'[w] = AfterEvaluation(d, u, p)
  PROVE  Moves(w)
<1> DEFINE v == wk[w]
           t == wk'[w]
           s == AfterEvaluation(d, u, p)
<1>1. /\ s.spent = d.spent /\ s.subs = d.subs /\ s.stops = d.stops /\ s.mark = d.mark
      /\ s.drained = d.drained /\ s.pc = p /\ s.op = d.op /\ s.mode = d.mode
      /\ s.phase = d.phase /\ s.folded = d.folded
  BY DEF WorkerState, AfterEvaluation
<1> HIDE DEF s
<1>2. t = s
  BY DEF s
<1>3. /\ t.spent = d.spent /\ t.subs = d.subs /\ t.stops = d.stops /\ t.mark = d.mark
      /\ t.drained = d.drained /\ t.pc = p /\ t.op = d.op /\ t.mode = d.mode
      /\ t.phase = d.phase /\ t.folded = d.folded
  BY <1>1, <1>2
<1>4. Keeps(v, t)
  <2>1. Follows(v, d)
    OBVIOUS
  <2> HIDE DEF v, t
  <2> QED
    BY <1>3, <2>1 DEF Follows, Keeps
<1>5. Modes(w)
  BY <1>3, GoesOn DEF Follows, DrainPcs
<1> QED
  BY <1>4, <1>5 DEF AsksMove, Moves

LEMMA NextPc == \A f : (IF f = {} THEN "send" ELSE "sample") \in {"send", "sample"}
OBVIOUS

LEMMA DecideAsks ==
  ASSUME TypeInv, NEW w \in Workers, Sound(wk[w]), CommitDecide(w) \/ HeartbeatDecide(w)
  PROVE  Moves(w)
<1> DEFINE v == wk[w]
           t == wk'[w]
           d == DrainedTo(v)
<1>1. v \in WorkerState /\ v.pc = "take" /\ Undrained(v) = {}
  <2>1. Drained(w, "commit") \/ Drained(w, "heartbeat")
    BY DEF CommitDecide, HeartbeatDecide
  <2> QED
    BY <2>1, StateOf DEF Drained, At
<1>2. d \in WorkerState /\ Follows(v, d)
  <2>1. v.pc = "take" /\ Undrained(v) = {}
    BY <1>1
  <2> QED
    BY <2>1, DrainedFollows
<1>3. ASSUME NEW held \in Due(v)
      PROVE  Decide(d, held) \in WorkerState /\ Follows(v, Decide(d, held))
  <2> DEFINE h == Decide(d, held)
  <2> HIDE DEF d
  <2>1. h \in WorkerState /\ h.folded = d.folded
    BY <1>2, DecideType, DecideFrame DEF Due, Frame
  <2>2. /\ Rests(d, h) /\ h.drained = d.drained /\ h.phase = d.phase
        /\ h.op = d.op /\ h.mode = d.mode
        /\ \A r \in RequestIds :
             h.stops[r] = IF d.stops[r] = "now" \/ r \in held THEN "held" ELSE d.stops[r]
    BY <1>2, DecideRests
  <2>3. \A r \in held : v.stops[r] = "later"
    BY DEF Due
  <2>4. \A r \in RequestIds : h.stops[r] = "none" <=> v.stops[r] = "none"
    BY <1>2, <2>2, <2>3 DEF Follows, Keeps
  <2> HIDE DEF v, h
  <2>5. Keeps(v, h)
    BY <1>2, <2>2, <2>4 DEF Follows, Keeps, Rests
  <2> QED
    BY <1>2, <2>1, <2>2, <2>5 DEF Follows, h
<1>4. CASE CommitDecide(w)
  <2>1. PICK held \in Due(v), fired \in MayFire(v), expired \in SUBSET Live(v) :
          Become(w, [Decide(d, held) EXCEPT
            !.under = Evaluated(v, "", fired, expired),
            !.pc = IF fired = {} THEN "send" ELSE "sample"])
    BY <1>4 DEF CommitDecide
  <2> DEFINE u == Evaluated(v, "", fired, expired)
             p == IF fired = {} THEN "send" ELSE "sample"
             h == Decide(d, held)
  <2> HIDE DEF u, h
  <2>2. t = AfterEvaluation(h, u, p)
    BY <2>1, Becomes DEF AfterEvaluation, h, u
  <2>3. p \in {"send", "sample"} /\ v.pc \in DrainPcs
    BY <1>1, NextPc DEF DrainPcs
  <2>4. h \in WorkerState /\ Follows(v, h)
    BY <1>3 DEF h
  <2> HIDE DEF p
  <2> QED
    BY <2>2, <2>3, <2>4, EvaluatedAsks
<1>5. CASE HeartbeatDecide(w)
  <2>1. PICK held \in Due(v) : Become(w, AfterDecision(Decide(d, held)))
    BY <1>5 DEF HeartbeatDecide, AfterDecision
  <2> DEFINE h == Decide(d, held)
             beat == AfterDecision(h)
  <2>2. t = beat /\ v.op = "heartbeat"
    BY <1>5, <2>1, Becomes DEF HeartbeatDecide, Drained
  <2>3. h \in WorkerState /\ Follows(v, h)
    BY <1>3
  <2> HIDE DEF h
  <2>4. /\ beat.spent = h.spent /\ beat.subs = h.subs /\ beat.stops = h.stops
        /\ beat.mark = h.mark /\ beat.drained = h.drained /\ beat.pc = "beat"
        /\ beat.op = h.op /\ beat.mode = h.mode /\ beat.phase = h.phase
        /\ beat.folded = h.folded
    BY <2>3 DEF WorkerState, AfterDecision
  <2> HIDE DEF beat
  <2>5. Keeps(v, t)
    <3>1. Keeps(v, h)
      BY <2>3 DEF Follows
    <3> HIDE DEF v, t
    <3> QED
      BY <2>2, <2>4, <3>1 DEF Keeps
  <2>6. Modes(w)
    BY <1>1, <2>2, <2>3, <2>4, GoesOn DEF Follows, DrainPcs
  <2> QED
    BY <2>5, <2>6 DEF AsksMove, Moves
<1> QED
  BY <1>4, <1>5

LEMMA SampleAsks ==
  ASSUME TypeInv, NEW w \in Workers, Sound(wk[w]), SampleSend(w)
  PROVE  Moves(w)
<1> DEFINE v == wk[w]
           t == wk'[w]
           vs == v.under.values \cup {Len(log) + 1}
           u == [v.under EXCEPT !.values = vs]
<1>1. v \in WorkerState
  BY StateOf
<1>2. t = AfterEvaluation(v, u, "send")
  <2>1. t = [[v EXCEPT !.under.values = vs] EXCEPT !.pc = "send"]
    BY Becomes DEF SampleSend
  <2> HIDE DEF v, vs
  <2> QED
    BY <1>1, <2>1 DEF WorkerState, AfterEvaluation
<1>3. Follows(v, v)
  BY DEF Follows, Keeps
<1>4. v.pc \in DrainPcs
  BY DEF SampleSend, At, DrainPcs
<1> HIDE DEF u
<1> QED
  BY <1>1, <1>2, <1>3, <1>4, EvaluatedAsks

LEMMA FailsAsks ==
  ASSUME TypeInv, NEW w \in Workers, Sound(wk[w]), NodeFails(w) \/ ExitPrepared(w)
  PROVE  Moves(w)
<1> DEFINE v == wk[w]
           t == wk'[w]
<1>1. v \in WorkerState /\ v.op # "none"
  BY StateOf DEF NodeFails, ExitPrepared, At, Sound, Settled, DrainPcs
<1>2. CASE t = Tear(v)
  <2>1. /\ SameAsks(v, t) /\ t.pc = "idle" /\ t.op = "none" /\ t.mode = "ITERATION"
        /\ t.phase = "discarded" /\ t.folded = v.folded
    <3> HIDE DEF v
    <3> QED
      BY <1>1, <1>2, TearRests, TearFrame DEF SameAsks, Frame
  <2>2. Modes(w)
    BY <2>1, Returns
  <2> QED
    BY <2>1, <2>2, SameKeeps DEF Moves
<1>3. ASSUME NEW under, t = Drains(v, "exitCas", v.mode, under), v.op # "none"
      PROVE  Moves(w)
  <2>1. /\ SameAsks(v, t) /\ t.pc = "drain" /\ t.op = "exitCas" /\ t.mode = v.mode
        /\ t.phase = v.phase /\ t.folded = v.folded
    <3> HIDE DEF v
    <3> QED
      BY <1>1, <1>3, DrainsRests, DrainsFrame DEF SameAsks, Rests, Frame
  <2>2. v.mode = "ITERATION" => Ready(v)
    BY <1>3 DEF Sound, Serving
  <2>3. v.mode \in {"ITERATION", "EXIT"}
    BY <1>1 DEF WorkerState
  <2>4. Modes(w)
    BY <2>1, <2>2, <2>3, Enters
  <2> QED
    BY <2>1, <2>4, SameKeeps DEF Moves
<1>4. \/ t = Tear(v)
      \/ \E under : t = Drains(v, "exitCas", v.mode, under)
  BY Becomes DEF NodeFails, ExitPrepared, ToExitCas
<1> QED
  BY <1>1, <1>2, <1>3, <1>4

LEMMA SendAsks ==
  ASSUME TypeInv, NEW w \in Workers, Sound(wk[w]),
         CommitSend(w) \/ CommitUnacknowledged(w) \/ HeartbeatSend(w)
  PROVE  Moves(w)
<1> DEFINE v == wk[w]
           t == wk'[w]
           n == Len(log) + 1
<1>1. v \in WorkerState
  BY StateOf
<1>2. Ready(v)
  <2>1. v.op = "commit" \/ v.pc = "beat"
    BY DEF CommitSend, CommitUnacknowledged, HeartbeatSend, At
  <2> QED
    BY <2>1 DEF Sound, Serving
<1>3. t = NodeLanded(v, n) \/ t = Tear(v) \/ t = Idle(v)
  BY Becomes DEF CommitSend, CommitUnacknowledged, HeartbeatSend
<1>4. CASE t = NodeLanded(v, n)
  <2>1. /\ Expires(v, t) /\ t.folded = v.folded /\ t.phase = v.phase /\ t.pc = "idle"
        /\ t.op = "none" /\ t.mode = "ITERATION"
    <3> HIDE DEF v, t, n
    <3> QED
      BY <1>1, <1>4, NodeLandedRests, NodeLandedFrame DEF Expires, Frame
  <2>2. Modes(w)
    BY <1>2, <2>1, Returns
  <2> QED
    BY <2>1, <2>2 DEF AsksMove, Moves
<1>5. CASE t = Tear(v)
  <2>1. /\ SameAsks(v, t) /\ t.pc = "idle" /\ t.op = "none" /\ t.mode = "ITERATION"
        /\ t.phase = "discarded" /\ t.folded = v.folded
    <3> HIDE DEF v, t
    <3> QED
      BY <1>1, <1>5, TearRests, TearFrame DEF SameAsks, Frame
  <2>2. Modes(w)
    BY <2>1, Returns
  <2> QED
    BY <2>1, <2>2, SameKeeps DEF Moves
<1>6. CASE t = Idle(v)
  <2>1. /\ SameAsks(v, t) /\ t.pc = "idle" /\ t.op = "none" /\ t.mode = "ITERATION"
        /\ t.phase = v.phase /\ t.folded = v.folded
    <3> HIDE DEF v, t
    <3> QED
      BY <1>1, <1>6, IdleRests, IdleFrame DEF Rests, SameAsks, Frame
  <2>2. Modes(w)
    BY <1>2, <2>1, Returns
  <2> QED
    BY <2>1, <2>2, SameKeeps DEF Moves
<1> QED
  BY <1>3, <1>4, <1>5, <1>6

(* A lost CAS drains again. *)
AfterLoss(d, n) == [d EXCEPT !.pc = "drain", !.tries = 0, !.exits = n]

AfterExit(d) == [Idle(d) EXCEPT !.phase = "stopped"]

LEMMA ExitAsks ==
  ASSUME TypeInv, NEW w \in Workers, Sound(wk[w]), ExitNode(w) \/ ExitCas(w)
  PROVE  Moves(w)
<1> DEFINE v == wk[w]
           t == wk'[w]
           d == DrainedTo(v)
           k == v.exits + 1
<1>1. /\ v \in WorkerState /\ v.pc = "take" /\ Undrained(v) = {}
      /\ v.mode \in {"ITERATION", "EXIT"}
  <2>1. Drained(w, "exitNode") \/ Drained(w, "exitCas")
    BY DEF ExitNode, ExitCas
  <2> QED
    BY <2>1, StateOf DEF Drained, At, WorkerState
<1>2. d \in WorkerState /\ Follows(v, d)
  <2>1. v.pc = "take" /\ Undrained(v) = {}
    BY <1>1
  <2> QED
    BY <2>1, DrainedFollows
<1>3. /\ v.pc \in DrainPcs /\ v.op # "none" /\ (v.mode = "ITERATION" => Ready(v))
  BY <1>1 DEF DrainPcs, Sound, Settled, Serving
<1>4. \/ t = Idle(d) /\ v.mode = "ITERATION"
      \/ \E u : t = ToExitCas(d, u)
      \/ t = AfterExit(d) /\ ~Serves(v) /\ v.w = Len(log)
      \/ t = AfterLoss(d, k)
      \/ t = Starve(d)
      \/ \E u : \E p \in {"send", "sample"} : t = AfterEvaluation(d, u, p)
  <2>1. CASE ExitNode(w)
    <3>1. \/ \E fired \in MayFire(v), expired \in SUBSET Live(v) :
               Become(w, AfterEvaluation(d, Evaluated(v, v.under.body, fired, expired),
                                         IF fired = {} THEN "send" ELSE "sample"))
          \/ Serves(v) /\ Become(w, Idle(d))
          \/ \E u : Become(w, ToExitCas(d, u))
      BY <2>1, ZenonT(30) DEF ExitNode, AfterEvaluation
    <3>2. CASE \E fired \in MayFire(v), expired \in SUBSET Live(v) :
                 Become(w, AfterEvaluation(d, Evaluated(v, v.under.body, fired, expired),
                                           IF fired = {} THEN "send" ELSE "sample"))
      <4>1. PICK fired \in MayFire(v), expired \in SUBSET Live(v) :
              Become(w, AfterEvaluation(d, Evaluated(v, v.under.body, fired, expired),
                                        IF fired = {} THEN "send" ELSE "sample"))
        BY <3>2
      <4>2. t = AfterEvaluation(d, Evaluated(v, v.under.body, fired, expired),
                                IF fired = {} THEN "send" ELSE "sample")
        BY <4>1, Becomes
      <4> QED
        BY <4>2, NextPc
    <3>3. CASE Serves(v) /\ Become(w, Idle(d))
      BY <3>3, Becomes DEF Serves
    <3>4. CASE \E u : Become(w, ToExitCas(d, u))
      BY <3>4, Becomes
    <3> QED
      BY <3>1, <3>2, <3>3, <3>4
  <2>2. CASE ExitCas(w)
    BY <2>2, Becomes DEF ExitCas, Serves, AtTail, AfterExit, AfterLoss
  <2> QED
    BY <2>1, <2>2
<1> HIDE DEF d
<1>5. CASE t = Idle(d) /\ v.mode = "ITERATION"
  <2>1. /\ Keeps(v, t) /\ t.pc = "idle" /\ t.op = "none" /\ t.mode = "ITERATION"
        /\ t.phase = v.phase /\ t.folded = v.folded
    <3> HIDE DEF v, t
    <3> QED
      BY <1>2, <1>5, IdleRests, IdleFrame DEF Rests, Keeps, Follows, Frame
  <2>2. Modes(w)
    BY <1>3, <1>5, <2>1, Returns
  <2> QED
    BY <2>1, <2>2 DEF AsksMove, Moves
<1>6. CASE \E u : t = ToExitCas(d, u)
  <2>1. PICK u : t = Drains(d, "exitCas", d.mode, u)
    BY <1>6 DEF ToExitCas
  <2>2. /\ Keeps(v, t) /\ t.pc = "drain" /\ t.op = "exitCas" /\ t.mode = v.mode
        /\ t.phase = v.phase /\ t.folded = v.folded
    <3> HIDE DEF v, t
    <3> QED
      BY <1>2, <2>1, DrainsRests, DrainsFrame DEF Rests, Keeps, Follows, Frame
  <2>3. Modes(w)
    BY <1>1, <1>3, <2>2, Enters
  <2> QED
    BY <2>2, <2>3 DEF AsksMove, Moves
<1>7. CASE t = AfterExit(d) /\ ~Serves(v) /\ v.w = Len(log)
  <2> DEFINE i == Idle(d)
  <2>1. /\ i \in WorkerState /\ Rests(d, i) /\ i.stops = d.stops /\ i.drained = d.drained
        /\ i.pc = "idle" /\ i.op = "none" /\ i.mode = "ITERATION" /\ i.folded = d.folded
    BY <1>2, IdleType, IdleRests, IdleFrame DEF Frame
  <2> HIDE DEF i
  <2>2. /\ t.spent = i.spent /\ t.subs = i.subs /\ t.stops = i.stops /\ t.mark = i.mark
        /\ t.drained = i.drained /\ t.pc = i.pc /\ t.op = i.op /\ t.mode = i.mode
        /\ t.phase = "stopped" /\ t.folded = i.folded
    <3>1. t = [i EXCEPT !.phase = "stopped"]
      BY <1>7 DEF AfterExit, i
    <3> HIDE DEF t
    <3> QED
      BY <2>1, <3>1 DEF WorkerState
  <2>3. Keeps(v, t) /\ t.folded = v.folded
    <3> HIDE DEF v, t
    <3> QED
      BY <1>2, <2>1, <2>2 DEF Rests, Keeps, Follows
  <2>4. Modes(w)
    BY <1>1, <1>7, <2>1, <2>2, <2>3, Returns DEF RetiresOf
  <2> QED
    BY <2>3, <2>4 DEF AsksMove, Moves
<1>8. CASE t = AfterLoss(d, k)
  <2>1. /\ t.spent = d.spent /\ t.subs = d.subs /\ t.stops = d.stops /\ t.mark = d.mark
        /\ t.drained = d.drained /\ t.pc = "drain" /\ t.op = d.op /\ t.mode = d.mode
        /\ t.phase = d.phase /\ t.folded = d.folded
    <3> HIDE DEF t, k
    <3> QED
      BY <1>2, <1>8 DEF AfterLoss, WorkerState
  <2>2. Keeps(v, t)
    <3> HIDE DEF v, t
    <3> QED
      BY <1>2, <2>1 DEF Keeps, Follows
  <2>3. Modes(w)
    BY <1>2, <1>3, <2>1, GoesOn DEF Follows
  <2> QED
    BY <2>2, <2>3 DEF AsksMove, Moves
<1>9. CASE t = Starve(d)
  <2>1. /\ Keeps(v, t) /\ t.pc = "idle" /\ t.op = "none" /\ t.mode = "ITERATION"
        /\ t.phase = "starved" /\ t.folded = v.folded
    <3> HIDE DEF v, t
    <3> QED
      BY <1>2, <1>9, StarveRests, StarveFrame DEF Rests, Keeps, Follows, Frame
  <2>2. Modes(w)
    BY <2>1, Returns
  <2> QED
    BY <2>1, <2>2 DEF AsksMove, Moves
<1>10. CASE \E u : \E p \in {"send", "sample"} : t = AfterEvaluation(d, u, p)
  <2>1. PICK u : \E p \in {"send", "sample"} : t = AfterEvaluation(d, u, p)
    BY <1>10
  <2> QED
    BY <1>2, <1>3, <2>1, EvaluatedAsks
<1> QED
  BY <1>4, <1>5, <1>6, <1>7, <1>8, <1>9, <1>10

-----------------------------------------------------------------------------
(* Every step, for every worker.                                           *)

Busy == DrainPcs \cup {"beat"}

(* A claim whose fold did not raise is folded before it is worked on. *)
Busies(v, t) == t.pc \in Busy => v.pc \in Busy \/ v.folded \/ "fold" \in Faults

Ended(t) == ~t.up /\ t.op = "none" /\ t.phase = "new"

LEMMA GoneAsks ==
  ASSUME TypeInv, NEW w \in Workers, ProcessEnds(w)
  PROVE  Ended(wk'[w])
<1> DEFINE c == wk[w].claim
           f == wk[w].folded
           s == [NewWorker EXCEPT !.up = FALSE, !.claim = c, !.folded = f]
<1>1. wk'[w] = s
  BY Becomes DEF ProcessEnds
<1>2. Ended(s)
  <2> HIDE DEF c, f
  <2> QED
    BY DEF NewWorker, Ended
<1> HIDE DEF s
<1> QED
  BY <1>1, <1>2

(* A claim, once won, is kept. *)
LEMMA ClaimsKept ==
  ASSUME TypeInv, WriterInv, Step, NEW w \in Workers, wk[w].claim # 0
  PROVE  wk'[w].claim = wk[w].claim
<1>0. \A u \in Workers : wk' = [wk EXCEPT ![u] = wk'[u]] /\ u # w => wk'[w] = wk[w]
  BY DEF TypeInv, TypeOK
<1>1. ASSUME NEW u \in Workers, WorkerStep(u) PROVE wk'[w].claim = wk[w].claim
  <2>1. wk'[u].claim = wk[u].claim /\ wk' = [wk EXCEPT ![u] = wk'[u]]
    BY <1>1 DEF WorkerStep, ControlMoves
  <2> QED
    BY <1>0, <2>1
<1>2. ASSUME NEW u \in Workers, ClaimWon(u) PROVE wk'[w].claim = wk[w].claim
  <2>1. wk[u].claim = 0 /\ wk' = [wk EXCEPT ![u] = wk'[u]]
    BY <1>2 DEF ClaimWon, WriterInv, ClaimPcs
  <2> QED
    BY <1>0, <2>1
<1>3. ASSUME NEW u \in Workers, Gone(u) PROVE wk'[w].claim = wk[w].claim
  <2>1. wk'[u].claim = wk[u].claim /\ wk' = [wk EXCEPT ![u] = wk'[u]]
    BY <1>3 DEF Gone
  <2> QED
    BY <1>0, <2>1
<1>4. ASSUME NEW x \in Actors, ReportMoves(x) PROVE wk'[w].claim = wk[w].claim
  <2>1. CASE UNCHANGED wk
    BY <2>1
  <2>2. CASE x \in Workers /\ wk' = [wk EXCEPT ![x] = wk'[x]] /\ Claimant(wk[x], wk'[x])
    BY <1>0, <2>2 DEF Claimant, Frame
  <2> QED
    BY <1>4, <2>1, <2>2 DEF ReportMoves, ReportGoesOn, ReportIsOver
<1> QED
  BY <1>1, <1>2, <1>3, <1>4 DEF Step, Probed, ReportBegins, Asked

(* An exit's failure is remembered. *)
LEMMA FailedKept ==
  ASSUME TypeInv, WriterInv, Step, NEW w \in Workers, wk[w].claim # 0, wk[w].failed,
         wk'[w].up
  PROVE  wk'[w].failed
<1>0. \A u \in Workers : wk' = [wk EXCEPT ![u] = wk'[u]] /\ u # w => wk'[w] = wk[w]
  BY DEF TypeInv, TypeOK
<1>1. ASSUME NEW u \in Workers, WorkerStep(u) PROVE wk'[w].failed
  <2>1. (wk[u].failed => wk'[u].failed) /\ wk' = [wk EXCEPT ![u] = wk'[u]]
    BY <1>1 DEF WorkerStep, ControlMoves
  <2> QED
    BY <1>0, <2>1
<1>2. ASSUME NEW u \in Workers, ClaimWon(u) PROVE wk'[w].failed
  <2>1. wk[u].claim = 0 /\ wk' = [wk EXCEPT ![u] = wk'[u]]
    BY <1>2 DEF ClaimWon, WriterInv, ClaimPcs
  <2> QED
    BY <1>0, <2>1
<1>3. ASSUME NEW u \in Workers, Gone(u) PROVE wk'[w].failed
  <2>1. ~wk'[u].up /\ wk' = [wk EXCEPT ![u] = wk'[u]]
    BY <1>3 DEF Gone
  <2> QED
    BY <1>0, <2>1
<1>4. ASSUME NEW x \in Actors, ReportMoves(x) PROVE wk'[w].failed
  <2>1. CASE UNCHANGED wk
    BY <2>1
  <2>2. CASE x \in Workers /\ wk' = [wk EXCEPT ![x] = wk'[x]] /\ Claimant(wk[x], wk'[x])
    BY <1>0, <2>2 DEF Claimant, Frame
  <2> QED
    BY <1>4, <2>1, <2>2 DEF ReportMoves, ReportGoesOn, ReportIsOver
<1> QED
  BY <1>1, <1>2, <1>3, <1>4 DEF Step, Probed, ReportBegins, Asked

(* Who may call, and who works. *)
LEMMA Called ==
  ASSUME NEW w, CallStep(w) \/ BeginStopped(w) \/ RetryStarved(w)
  PROVE  wk[w].up /\ wk[w].folded
<1>1. CASE Emit(w) \/ SetRegister(w) \/ Include(w) \/ Rewind(w) \/ Discard(w)
  BY <1>1 DEF Emit, SetRegister, Include, Rewind, Discard, Call, Callable, At
<1>2. CASE BeginCommit(w) \/ BeginHeartbeat(w) \/ BeginRetire(w)
  BY <1>2 DEF BeginCommit, BeginHeartbeat, BeginRetire, Call, Callable, At
<1>3. CASE BeginStopped(w) \/ RetryStarved(w)
  BY <1>3 DEF BeginStopped, RetryStarved, Callable, At
<1> QED
  BY <1>1, <1>2, <1>3 DEF CallStep

LEMMA Working ==
  ASSUME NEW w, DrainStep(w) \/ NodeStep(w)
  PROVE  wk[w].up /\ wk[w].pc \in Busy
<1>1. CASE DrainRead(w) \/ DrainStarved(w)
  BY <1>1, Zenon DEF DrainRead, DrainStarved, At, Busy, DrainPcs
<1>2. CASE TakeRecord(w) \/ WriteAnswer(w)
  BY <1>2, Zenon DEF TakeRecord, WriteAnswer, At, Busy, DrainPcs
<1>3. CASE CommitDecide(w) \/ HeartbeatDecide(w) \/ SampleSend(w) \/ NodeFails(w)
  BY <1>3 DEF CommitDecide, HeartbeatDecide, SampleSend, NodeFails, Drained, At, Busy, DrainPcs
<1>4. CASE CommitSend(w) \/ CommitUnacknowledged(w) \/ HeartbeatSend(w)
  BY <1>4 DEF CommitSend, CommitUnacknowledged, HeartbeatSend, At, Busy, DrainPcs
<1>5. CASE ExitNode(w) \/ ExitPrepared(w) \/ ExitCas(w)
  BY <1>5 DEF ExitNode, ExitPrepared, ExitCas, Drained, At, Busy, DrainPcs
<1> QED
  BY <1>1, <1>2, <1>3, <1>4, <1>5 DEF DrainStep, NodeStep

(* A process ends idle. *)
LEMMA StaysUp ==
  ASSUME TypeInv, Step, NEW w \in Workers, wk[w].up
  PROVE  wk'[w].up \/ wk'[w].pc = "idle"
<1>0. \A u \in Workers : wk' = [wk EXCEPT ![u] = wk'[u]] /\ u # w => wk'[w] = wk[w]
  BY DEF TypeInv, TypeOK
<1>1. ASSUME NEW u \in Workers, WorkerStep(u) PROVE wk'[w].up
  BY <1>0, <1>1 DEF WorkerStep, ControlMoves
<1>2. ASSUME NEW u \in Workers, ClaimWon(u) PROVE wk'[w].up
  BY <1>0, <1>2 DEF ClaimWon
<1>3. ASSUME NEW u \in Workers, Gone(u) PROVE wk'[w].up \/ wk'[w].pc = "idle"
  BY <1>0, <1>3 DEF Gone
<1>4. ASSUME NEW x \in Actors, ReportMoves(x) PROVE wk'[w].up
  <2>1. CASE UNCHANGED wk
    BY <2>1
  <2>2. CASE x \in Workers /\ wk' = [wk EXCEPT ![x] = wk'[x]] /\ Claimant(wk[x], wk'[x])
    BY <1>0, <2>2 DEF Claimant, Frame
  <2> QED
    BY <1>4, <2>1, <2>2 DEF ReportMoves, ReportGoesOn, ReportIsOver
<1> QED
  BY <1>1, <1>2, <1>3, <1>4 DEF Step, Probed, ReportBegins, Asked

LEMMA StepAsks ==
  ASSUME TypeInv, WriterInv, ReportsInv, [Next]_vars, NEW w \in Workers,
         wk[w].up => Sound(wk[w])
  PROVE  \/ wk'[w] = wk[w]
         \/ Ended(wk'[w])
         \/ wk[w].up /\ wk[w].claim = 0 /\ Waits(wk[w], wk'[w])
         \/ wk[w].up /\ wk[w].claim # 0 /\ Moves(w) /\ Busies(wk[w], wk'[w])
<1> DEFINE v == wk[w]
           t == wk'[w]
<1>1. SUFFICES ASSUME Next, t # v
               PROVE  \/ Ended(t)
                      \/ v.up /\ v.claim = 0 /\ Waits(v, t)
                      \/ v.up /\ v.claim # 0 /\ Moves(w) /\ Busies(v, t)
  BY DEF vars
<1>2. ASSUME NEW x \in Actors, ReportStep(x)
      PROVE  v.up /\ v.claim = 0 /\ Waits(v, t)
  <2>1. Waits(v, t) /\ v.pc \in ClaimPcs
    BY <1>1, <1>2, ReportAsks
  <2>2. x = w /\ rep[x].pc # "idle"
    <3>1. ReportMoves(x)
      BY <1>2, ReportStepStep
    <3>2. x \in Workers /\ wk' = [wk EXCEPT ![x] = wk'[x]]
      BY <1>1, <3>1 DEF ReportMoves, ReportGoesOn, ReportIsOver
    <3> QED
      BY <1>1, <3>1, <3>2 DEF TypeInv, TypeOK, ReportMoves
  <2> QED
    BY <2>1, <2>2 DEF ReportsInv, WriterInv
<1>3. CASE (\E p \in Reporters : StartReport(p)) \/ (\E e \in Asks : Ask(e))
  BY <1>1, <1>3 DEF StartReport, Ask
<1>4. ASSUME NEW x \in Workers,
             \/ Construct(x) \/ ClaimStep(x) \/ CallStep(x) \/ BeginStopped(x)
             \/ RetryStarved(x) \/ DrainStep(x) \/ NodeStep(x) \/ CallRaises(x)
             \/ ProcessEnds(x)
      PROVE  \/ Ended(t)
             \/ v.up /\ v.claim = 0 /\ Waits(v, t)
             \/ v.up /\ v.claim # 0 /\ Moves(w) /\ Busies(v, t)
  <2>1. x = w
    <3>1. wk' = [wk EXCEPT ![x] = wk'[x]]
      BY <1>4, OwnStep
    <3> QED
      BY <1>1, <3>1 DEF TypeInv, TypeOK
  <2>2. CASE \/ Construct(w) \/ ResumePoint(w) \/ ReadLatest(w) \/ ClaimCas(w)
             \/ ClaimStarved(w) \/ ProbeLatest(w) \/ ProbeHeld(w)
    <3>1. v.up
      BY <2>2, Zenon DEF Construct, ResumePoint, ReadLatest, ClaimCas, ClaimStarved,
                  ProbeLatest, ProbeHeld, At
    <3>2. Waits(v, t) /\ (v.pc \in ClaimPcs \/ v.phase = "new")
      BY <2>2, ClaimantAsks
    <3> QED
      BY <3>1, <3>2 DEF WriterInv
  <2>3. CASE FoldAnswers(w) \/ FoldRaises(w)
    <3>1. v.up /\ v.pc \in WorkPcs
      BY <2>3 DEF FoldAnswers, FoldRaises, At, WorkPcs
    <3>2. Moves(w)
      BY <2>3, <3>1, FoldAsks, BeginAsks
    <3>3. FoldRaises(w) => "fold" \in Faults
      BY DEF FoldRaises
    <3>4. FoldAnswers(w) => t.pc = "idle"
      BY FoldAsks DEF Folds
    <3>5. Busies(v, t)
      BY <2>3, <3>3, <3>4 DEF Busies, Busy, DrainPcs
    <3> QED
      BY <3>1, <3>2, <3>5 DEF WriterInv
  <2>4. CASE CallStep(w) \/ BeginStopped(w) \/ RetryStarved(w)
    <3>1. v.up /\ v.folded
      BY <2>4, Called
    <3>2. Moves(w)
      BY <2>4, <3>1, CallAsks, BeginAsks DEF CallStep
    <3> QED
      BY <3>1, <3>2 DEF WriterInv, Busies
  <2>5. CASE DrainStep(w)
    <3>1. v.up /\ v.pc \in Busy
      BY <2>5, Working
    <3>2. Moves(w)
      BY <2>5, <3>1, DrainReadAsks, RaisingAsks, TakeAsks, WriteAsks DEF DrainStep, Raising
    <3> QED
      BY <3>1, <3>2 DEF WriterInv, Busies, Busy, DrainPcs, WorkPcs
  <2>6. CASE NodeStep(w)
    <3>1. v.up /\ v.pc \in Busy
      BY <2>6, Working
    <3>2. Moves(w)
      BY <2>6, <3>1, DecideAsks, SampleAsks, FailsAsks, SendAsks, ExitAsks DEF NodeStep
    <3> QED
      BY <3>1, <3>2 DEF WriterInv, Busies, Busy, DrainPcs, WorkPcs
  <2>7. CASE ProcessEnds(w)
    BY <2>7, GoneAsks
  <2>8. CASE CallRaises(w)
    <3>1. v.up /\ v.pc \in Busy
      BY <2>8, RaisingIs DEF Raising, Busy, DrainPcs
    <3>2. Moves(w)
      BY <2>8, RaisingAsks DEF Raising
    <3> QED
      BY <3>1, <3>2 DEF WriterInv, Busies, Busy, DrainPcs, WorkPcs
  <2> QED
    BY <1>4, <2>1, <2>2, <2>3, <2>4, <2>5, <2>6, <2>7, <2>8 DEF ClaimStep
<1> QED
  BY <1>1, <1>2, <1>3, <1>4 DEF Next

-----------------------------------------------------------------------------
(* The subscriptions below a watermark: registered, or spent.              *)

Subscription(e) == e.topic = "subscribe" /\ e.rid # NoId

Covered(lg, s, m) ==
  \A k \in 1..Len(lg) : k <= m /\ Subscription(lg[k]) =>
    lg[k].rid \in s.spent \/ s.subs[lg[k].rid] # "none"

(* Between what was handled last and what the drain has passed, nothing. *)
Passed(lg, s) ==
  /\ s.mark <= Len(lg) /\ s.drained <= Len(lg)
  /\ \A k \in 1..Len(lg) : s.mark < k /\ k <= s.drained => ~IsControl(lg[k])

HeldLine(lg, s) ==
  /\ ~s.up => s.op = "none"
  /\ s.up => /\ Sound(s)
             /\ Unclaimed(s) => Bare(s)
             /\ s.folded => Passed(lg, s)

CoverLine(lg, s) == s.up /\ Ready(s) /\ ~s.failed => Covered(lg, s, s.mark)

HeldInv == \A w \in Workers : HeldLine(log, wk[w])

IsMark(e) == e.topic \in {"commit", "heartbeat"}

MarkLine(i) ==
  /\ log[i].claim \in AllClaims /\ log[i].consumed <= Len(log)
  /\ \A w \in Workers : wk[w].up /\ wk[w].claim = log[i].claim /\ ~wk[w].failed =>
       wk[w].pc # "answers" /\ Covered(log, wk[w], log[i].consumed)

AsksInv ==
  /\ \A w \in Workers : CoverLine(log, wk[w])
  /\ \A i \in 1..Len(log) : IsMark(log[i]) => MarkLine(i)

(* What is covered stays so, whatever is taken, spent or expired. *)
LEMMA CoveredStays ==
  ASSUME TypeInv, LogStep, NEW w \in Workers, AsksMove(wk[w], wk'[w]),
         wk[w].pc # "answers", NEW m \in 0..Len(log), Covered(log, wk[w], m)
  PROVE  Covered(log', wk'[w], m)
<1> DEFINE v == wk[w]
           t == wk'[w]
<1>0. v \in WorkerState /\ Len(log) \in Nat
  BY StateOf
<1> SUFFICES ASSUME NEW k \in 1..Len(log'), k <= m, Subscription(log'[k])
             PROVE  log'[k].rid \in t.spent \/ t.subs[log'[k].rid] # "none"
  BY DEF Covered
<1>1. k \in 1..Len(log) /\ log'[k] = log[k]
  BY <1>0, LogKept
<1> DEFINE r == log[k].rid
<1>2. r \in RequestIds
  BY <1>1, RecordAt DEF TypeInv, TypeOK, Subscription, Fields
<1>3. r \in v.spent \/ v.subs[r] # "none"
  BY <1>1 DEF Covered
<1> HIDE DEF r
<1>4. CASE Keeps(v, t)
  BY <1>3, <1>4, <1>1 DEF Keeps, r
<1>5. CASE Expires(v, t)
  <2>1. v.spent \subseteq t.spent
        /\ (t.subs[r] = v.subs[r] \/ r \in t.spent)
    BY <1>2, <1>5 DEF Expires
  <2> QED
    BY <1>1, <1>3, <2>1 DEF r
<1>6. CASE Takes(v, t)
  <2> DEFINE Stands == /\ v.spent \subseteq t.spent
                       /\ t.subs[r] # "none" \/ r \in t.spent \/ t.subs[r] = v.subs[r]
  <2>1. PICK j \in Undrained(v) : Taken(v, t, j)
    BY <1>6 DEF Takes
  <2>2. ASSUME t.spent = v.spent, t.subs = v.subs PROVE Stands
    BY <2>2
  <2>3. ASSUME NEW q, Drops(v, t, q) PROVE Stands
    BY <1>2, <2>3 DEF Drops
  <2>4. ASSUME t.spent = v.spent \cup {log[j].rid}, t.subs = v.subs PROVE Stands
    BY <2>4
  <2>5. ASSUME Accepted(v, log[j]), t.spent = v.spent,
               t.subs = [v.subs EXCEPT ![log[j].rid] = log[j].body]
        PROVE  Stands
    <3>1. log[j].rid \in RequestIds /\ log[j].topic = "subscribe"
      BY <2>5 DEF Accepted, Subscribes, Answerable
    <3>2. j \in 1..Len(log)
      BY <1>0, <2>1, UndrainedOnLog
    <3>3. log[j].body # "none"
      BY <3>1, <3>2, RecordAt DEF TypeInv, TypeOK, WellBodied
    <3>4. v.subs \in [RequestIds -> {"none", "durable", "lease"}]
      BY <1>0 DEF WorkerState
    <3> QED
      BY <1>2, <2>5, <3>1, <3>3, <3>4
  <2>6. Stands
    BY <2>1, <2>2, <2>3, <2>4, <2>5 DEF Taken
  <2> QED
    BY <1>1, <1>3, <2>6 DEF r
<1> QED
  BY <1>4, <1>5, <1>6 DEF AsksMove, Folds

LEMMA LinesGrow ==
  ASSUME TypeInv, LogStep, NEW w \in Workers
  PROVE  /\ \A m \in 0..Len(log) : Covered(log, wk[w], m) => Covered(log', wk[w], m)
         /\ Passed(log, wk[w]) => Passed(log', wk[w])
<1>1. /\ wk[w] \in WorkerState /\ Len(log) \in Nat /\ Len(log') \in Nat
      /\ Len(log) <= Len(log') /\ \A i \in 1..Len(log) : log'[i] = log[i]
  BY StateOf, LogKept DEF Landed
<1>2. wk[w].mark \in Nat /\ wk[w].drained \in Nat
  BY <1>1 DEF WorkerState
<1>3. ASSUME NEW m \in 0..Len(log), Covered(log, wk[w], m) PROVE Covered(log', wk[w], m)
  <2> SUFFICES ASSUME NEW k \in 1..Len(log'), k <= m, Subscription(log'[k])
               PROVE  log'[k].rid \in wk[w].spent \/ wk[w].subs[log'[k].rid] # "none"
    BY DEF Covered
  <2>1. k \in 1..Len(log) /\ log'[k] = log[k]
    BY <1>1
  <2> QED
    BY <1>3, <2>1 DEF Covered
<1>4. ASSUME Passed(log, wk[w]) PROVE Passed(log', wk[w])
  <2>1. wk[w].mark <= Len(log') /\ wk[w].drained <= Len(log')
    BY <1>1, <1>2, <1>4 DEF Passed
  <2>2. ASSUME NEW k \in 1..Len(log'), wk[w].mark < k, k <= wk[w].drained
        PROVE  ~IsControl(log'[k])
    <3>1. k \in 1..Len(log) /\ log'[k] = log[k]
      BY <1>1, <1>2, <1>4, <2>2 DEF Passed
    <3> QED
      BY <1>4, <2>2, <3>1 DEF Passed
  <2> QED
    BY <2>1, <2>2 DEF Passed
<1> QED
  BY <1>3, <1>4

(* Above the last record handled, none is passed over. *)
LEMMA NonePassed ==
  ASSUME TypeInv, NEW w \in Workers, Passed(log, wk[w]),
         NEW k \in 1..Len(log), wk[w].mark < k, k <= wk[w].w, IsControl(log[k])
  PROVE  k \in Undrained(wk[w])
<1>1. wk[w].drained \in Nat /\ wk[w].w \in Nat
  BY StateOf DEF WorkerState
<1>2. ~(k <= wk[w].drained)
  BY DEF Passed
<1> QED
  BY <1>1, <1>2 DEF Undrained

(* A record taken by a worker that may register it is registered, spent,   *)
(* or no subscription. *)
LEMMA TakenCovers ==
  ASSUME TypeInv, LogStep, NEW w \in Workers, Takes(wk[w], wk'[w]),
         Ready(wk[w]), Passed(log, wk[w]), Covered(log, wk[w], wk[w].mark)
  PROVE  Covered(log', wk'[w], wk'[w].mark)
<1> DEFINE v == wk[w]
           t == wk'[w]
<1>0. /\ v \in WorkerState /\ v.mark \in Nat /\ v.drained \in Nat
      /\ Len(log) \in Nat /\ Len(log) <= Len(log')
      /\ Len(log') \in Nat /\ \A i \in 1..Len(log) : log'[i] = log[i]
      /\ v.w \in 0..Len(log)
  BY StateOf, LogKept DEF WorkerState, Landed
<1>1. PICK j \in Undrained(v) :
        IsNext(v, j) /\ t.mark = j /\ t.drained = j /\ Taken(v, t, j)
  BY DEF Takes
<1>2. j \in 1..Len(log) /\ j <= v.w
  BY <1>0, <1>1, UndrainedOnLog DEF Undrained
<1>4. Covered(log', t, v.mark)
  <2>1. v.mark \in 0..Len(log) /\ v.pc # "answers"
    BY <1>0 DEF Passed, Takes
  <2> QED
    BY <2>1, CoveredStays DEF AsksMove
<1>5. ASSUME NEW k \in 1..Len(log'), k <= j, ~(k <= v.mark), Subscription(log'[k])
      PROVE  k = j
  <2>1. k \in 1..Len(log) /\ log'[k] = log[k] /\ IsControl(log[k])
    BY <1>0, <1>2, <1>5 DEF Subscription, IsControl, ControlTopics
  <2>2. k \in Undrained(v)
    BY <1>0, <1>2, <1>5, <2>1, NonePassed
  <2> QED
    BY <1>0, <1>1, <1>2, <1>5, <2>2 DEF IsNext
<1> DEFINE r == log[j].rid
<1>6. Subscription(log[j]) => r \in t.spent \/ t.subs[r] # "none"
  <2> SUFFICES ASSUME Subscription(log[j]) PROVE r \in t.spent \/ t.subs[r] # "none"
    OBVIOUS
  <2>1. /\ log[j].topic = "subscribe" /\ r # NoId /\ v.mode = "ITERATION"
        /\ r \in RequestIds /\ log[j].body \in {"durable", "lease", "bad"}
    BY <1>2, RecordAt DEF Subscription, Ready, TypeInv, TypeOK, Fields, WellBodied
  <2>2. CASE Skipped(v, log[j], j) /\ t.spent = v.spent
    BY <2>1, <2>2 DEF Skipped, r
  <2>3. CASE Drops(v, t, r)
    BY <2>3 DEF Drops
  <2>4. CASE t.spent = v.spent \cup {r}
    BY <2>4
  <2>5. CASE t.subs = [v.subs EXCEPT ![r] = log[j].body]
    <3>1. v.subs \in [RequestIds -> {"none", "durable", "lease"}]
      BY <1>0 DEF WorkerState
    <3> QED
      BY <2>1, <2>5, <3>1
  <2> QED
    BY <1>1, <2>1, <2>2, <2>3, <2>4, <2>5 DEF Taken, TakesStop, TakesWithdraw, r
<1>7. Covered(log', t, j)
  <2> SUFFICES ASSUME NEW k \in 1..Len(log'), k <= j, Subscription(log'[k])
               PROVE  log'[k].rid \in t.spent \/ t.subs[log'[k].rid] # "none"
    BY DEF Covered
  <2>1. CASE k <= v.mark
    BY <1>4, <2>1 DEF Covered
  <2>2. CASE ~(k <= v.mark)
    <3>1. k = j /\ log'[k] = log[j]
      BY <1>0, <1>2, <1>5, <2>2
    <3> QED
      BY <1>6, <3>1
  <2> QED
    BY <2>1, <2>2
<1> QED
  BY <1>1, <1>7

LEMMA PassedStays ==
  ASSUME TypeInv, LogStep, NEW w \in Workers, AsksMove(wk[w], wk'[w]),
         wk[w].pc # "answers", Passed(log, wk[w])
  PROVE  Passed(log', wk'[w])
<1> DEFINE v == wk[w]
           t == wk'[w]
<1>0. /\ v.mark \in Nat /\ v.drained \in Nat /\ v.w \in 0..Len(log)
      /\ Len(log) \in Nat /\ Len(log) <= Len(log')
      /\ Len(log') \in Nat /\ \A i \in 1..Len(log) : log'[i] = log[i]
  BY StateOf, LogKept DEF WorkerState, Landed
<1>1. CASE t.mark = v.mark /\ t.drained = v.drained
  <2>1. Passed(log', v)
    BY LinesGrow
  <2> QED
    BY <1>1, <2>1 DEF Passed
<1>2. CASE t.mark = v.mark /\ t.drained = v.w /\ Undrained(v) = {}
  <2>1. t.mark <= Len(log') /\ t.drained <= Len(log')
    BY <1>0, <1>2 DEF Passed
  <2>2. ASSUME NEW k \in 1..Len(log'), t.mark < k, k <= t.drained, IsControl(log'[k])
        PROVE  FALSE
    <3>1. k \in 1..Len(log) /\ log'[k] = log[k] /\ v.mark < k /\ k <= v.w
      BY <1>0, <1>2, <2>2
    <3> QED
      BY <1>2, <2>2, <3>1, NonePassed
  <2> QED
    BY <2>1, <2>2 DEF Passed
<1>3. CASE Takes(v, t)
  <2>1. PICK j \in Undrained(v) : t.mark = j /\ t.drained = j
    BY <1>3 DEF Takes
  <2>2. j \in 1..Len(log)
    BY <2>1, UndrainedOnLog
  <2> QED
    BY <1>0, <2>1, <2>2 DEF Passed
<1> QED
  BY <1>1, <1>2, <1>3 DEF AsksMove, Keeps, Folds, Expires

LEMMA StepKeepsHeld ==
  ASSUME TypeInv, WriterInv, ReportsInv, Step, [Next]_vars, NEW w \in Workers,
         HeldLine(log, wk[w])
  PROVE  HeldLine(log', wk'[w])
<1> DEFINE v == wk[w]
           t == wk'[w]
<1> SUFFICES HeldLine(log', t)
  OBVIOUS
<1>0. LogStep /\ Len(log') \in Nat
  BY StepGrows, LogKept
<1>1. CASE t = v
  <2>1. Passed(log, v) => Passed(log', v)
    BY <1>0, LinesGrow
  <2>2. HeldLine(log, v)
    OBVIOUS
  <2> HIDE DEF v, t
  <2> QED
    BY <1>1, <2>1, <2>2 DEF HeldLine
<1>2. CASE Ended(t)
  BY <1>2 DEF Ended, HeldLine
<1>3. CASE v.up /\ v.claim = 0 /\ Waits(v, t)
  <2>1. Bare(v)
    BY <1>3 DEF HeldLine, Unclaimed
  <2>2. Bare(t) /\ t.pc \notin DrainPcs \cup {"beat"}
    BY <1>3, <2>1 DEF Waits, Bare
  <2> HIDE DEF v, t
  <2>3. Sound(t) /\ ~t.folded /\ t.op = "none"
    BY <2>2 DEF Bare, Sound, Serving, Settled
  <2> QED
    BY <2>2, <2>3 DEF HeldLine
<1>4. CASE v.up /\ v.claim # 0 /\ Moves(w)
  <2>1. Sound(t) /\ t.pc # "answers" /\ (t.folded = v.folded \/ Folds(v, t))
    BY <1>4 DEF Moves, Modes, Sound
  <2>2. t.claim # 0
    BY <1>4, ClaimsKept
  <2>3. ASSUME t.folded PROVE Passed(log', t)
    <3>1. CASE Folds(v, t)
      <4>1. t.mark = 0 /\ t.drained = 0
        BY <1>4, <3>1 DEF Folds, HeldLine, Unclaimed, Bare
      <4> QED
        BY <1>0, <4>1 DEF Passed
    <3>2. CASE v.folded
      <4>1. v.pc # "answers" /\ Passed(log, v)
        BY <1>4, <3>2 DEF HeldLine, Unclaimed, Bare
      <4> QED
        BY <1>0, <1>4, <4>1, PassedStays DEF Moves
    <3> QED
      BY <2>1, <2>3, <3>1, <3>2
  <2>4. ~t.up => t.op = "none"
    BY <1>4, <2>1, StaysUp DEF Sound, Settled
  <2> HIDE DEF v, t
  <2> QED
    BY <2>1, <2>2, <2>3, <2>4 DEF HeldLine, Unclaimed
<1> QED
  BY <1>1, <1>2, <1>3, <1>4, StepAsks DEF HeldLine

LEMMA HeldHolds == Spec => []HeldInv
<1>1. Init => HeldInv
  <2> SUFFICES ASSUME Init PROVE HeldInv
    OBVIOUS
  <2>1. Len(log) = 0 /\ \A w \in Workers : wk[w] = NewWorker
    BY DEF Init
  <2>2. /\ NewWorker.pc = "idle" /\ NewWorker.op = "none" /\ NewWorker.up
        /\ NewWorker.mode = "ITERATION" /\ NewWorker.mark = 0
        /\ NewWorker.spent = {} /\ ~NewWorker.folded
        /\ NewWorker.subs = [r \in RequestIds |-> "none"]
        /\ NewWorker.stops = [r \in RequestIds |-> "none"]
    BY DEF NewWorker
  <2>3. HeldLine(log, NewWorker)
    BY <2>2 DEF HeldLine, Sound, Serving, Settled, DrainPcs, Bare
  <2> QED
    BY <2>1, <2>3 DEF HeldInv
<1>2. ASSUME RunInv, HeldInv, [Next]_vars PROVE HeldInv'
  <2>1. TypeInv /\ WriterInv /\ ReportsInv /\ Step
    BY <1>2, NextStep DEF RunInv, ClaimInv
  <2> QED
    BY <1>2, <2>1, StepKeepsHeld DEF HeldInv
<1> QED
  BY <1>1, <1>2, RunInvHolds, PTL DEF Spec

LEMMA StepKeepsCover ==
  ASSUME TypeInv, WriterInv, ReportsInv, Step, [Next]_vars, NEW w \in Workers,
         HeldLine(log, wk[w]), CoverLine(log, wk[w])
  PROVE  CoverLine(log', wk'[w])
<1> DEFINE v == wk[w]
           t == wk'[w]
<1> SUFFICES ASSUME t.up, Ready(t), ~t.failed PROVE Covered(log', t, t.mark)
  BY DEF CoverLine
<1>0. /\ LogStep /\ v \in WorkerState /\ v.mark \in Nat
      /\ Len(log) \in Nat /\ Len(log') \in Nat
  BY StepGrows, StateOf, LogKept DEF WorkerState
<1>1. v.up /\ Ready(v) /\ ~v.failed =>
        /\ Covered(log, v, v.mark) /\ Passed(log, v)
        /\ v.pc # "answers" /\ v.mark \in 0..Len(log)
  BY <1>0 DEF CoverLine, HeldLine, Ready, Passed, Unclaimed, Bare
<1>2. CASE t = v
  BY <1>0, <1>1, <1>2, LinesGrow
<1>3. CASE v.up /\ v.claim = 0 /\ Waits(v, t)
  BY <1>3 DEF HeldLine, Unclaimed, Bare, Waits, Ready
<1>4. CASE v.up /\ v.claim # 0 /\ Moves(w)
  <2>1. AsksMove(v, t) /\ (Ready(v) \/ Folds(v, t)) /\ ~v.failed
    BY <1>4, FailedKept DEF Moves, Modes
  <2>2. CASE Folds(v, t)
    <3>1. t.mark = 0
      BY <1>4, <2>2 DEF Folds, HeldLine, Unclaimed, Bare
    <3> QED
      BY <1>0, <3>1 DEF Covered
  <2>3. CASE Ready(v) /\ Takes(v, t)
    BY <1>0, <1>1, <1>4, <2>1, <2>3, TakenCovers
  <2>4. CASE Ready(v) /\ t.mark = v.mark
    BY <1>0, <1>1, <1>4, <2>1, <2>4, CoveredStays
  <2> QED
    BY <2>1, <2>2, <2>3, <2>4 DEF AsksMove, Keeps, Folds, Expires
<1> QED
  BY <1>2, <1>3, <1>4, StepAsks DEF HeldLine, Ended

-----------------------------------------------------------------------------
(* The watermarks on the log.                                              *)

LEMMA CoverStays ==
  ASSUME TypeInv, WriterInv, ReportsInv, Step, [Next]_vars, NEW w \in Workers,
         HeldLine(log, wk[w]), wk[w].claim # 0, wk[w].pc # "answers",
         NEW m \in 0..Len(log), Covered(log, wk[w], m), wk'[w].up
  PROVE  wk'[w].pc # "answers" /\ Covered(log', wk'[w], m)
<1>0. LogStep
  BY StepGrows
<1>1. CASE wk'[w] = wk[w]
  BY <1>0, <1>1, LinesGrow
<1>2. CASE Moves(w)
  <2>1. AsksMove(wk[w], wk'[w]) /\ wk'[w].pc # "answers"
    BY <1>2 DEF Moves, Modes
  <2> QED
    BY <1>0, <2>1, CoveredStays
<1> QED
  BY <1>1, <1>2, StepAsks DEF HeldLine, Ended

(* A watermark is its writer's, who may register what it reads. *)
LEMMA NewMark ==
  ASSUME RunInv, HeldInv, Step, Landed, IsMark(Newest)
  PROVE  \E w \in Workers :
           /\ WorkerStep(w) /\ Ready(wk[w]) /\ wk[w].pc # "answers"
           /\ Newest.claim = wk[w].claim /\ wk[w].claim \in AllClaims
           /\ Newest.consumed = wk[w].mark /\ wk[w].mark \in 0..Len(log)
           /\ wk[w].up
<1>0. TypeInv /\ WriterInv
  BY DEF RunInv, ClaimInv
<1>1. ~UNCHANGED log /\ \A e \in Record : Send(e) => Newest = e
  BY <1>0, Sent DEF Landed, Newest, TypeInv, TypeOK
<1>2. ASSUME NEW w \in Workers, ClaimWon(w) PROVE FALSE
  BY <1>1, <1>2 DEF ClaimWon, IsMark
<1>3. ASSUME NEW x \in Actors, ReportMoves(x) PROVE FALSE
  BY <1>1, <1>3 DEF ReportMoves, ReportGoesOn, ReportIsOver, IsMark
<1>4. ~Asked
  BY <1>1, SMTT(60) DEF Asked, IsControl, ControlTopics, IsMark
<1>5. PICK w \in Workers : WorkerStep(w)
  BY <1>1, <1>2, <1>3, <1>4 DEF Step, Probed, Gone, ReportBegins
<1>6. PICK e \in Record : Send(e) /\ Writes(wk[w], wk'[w], e)
  BY <1>1, <1>5 DEF WorkerStep, LogMoves
<1>7. /\ Newest.claim = wk[w].claim /\ Newest.consumed = wk[w].mark
      /\ wk[w].pc = "beat" \/ (wk[w].pc = "send" /\ wk[w].op = "commit")
  BY <1>1, <1>6 DEF Writes, IsMark
<1>8. wk[w].up /\ ~Done(wk[w])
  BY <1>5 DEF WorkerStep, ControlMoves
<1>9. wk[w].claim \in AllClaims
  BY <1>0, <1>7 DEF WriterInv, WorkPcs
<1>10. Ready(wk[w])
  BY <1>7, <1>8 DEF HeldInv, HeldLine, Sound, Serving
<1>11. wk[w].mark <= Len(log)
  BY <1>8, <1>10 DEF HeldInv, HeldLine, Passed, Ready
<1>12. wk[w].mark \in 0..Len(log)
  BY <1>0, <1>11, StateOf DEF WorkerState
<1> QED
  BY <1>5, <1>7, <1>8, <1>9, <1>10, <1>12

LEMMA StepKeepsMarks ==
  ASSUME RunInv, HeldInv, AsksInv, [Next]_vars, NEW i \in 1..Len(log'), IsMark(log'[i])
  PROVE  MarkLine(i)'
<1>0. /\ TypeInv /\ WriterInv /\ ReportsInv /\ Step /\ LogStep
      /\ \A w \in Workers : HeldLine(log, wk[w])
  BY NextStep, StepGrows DEF RunInv, ClaimInv, HeldInv
<1>00. /\ Len(log) \in Nat /\ Len(log') \in Nat /\ Len(log) <= Len(log')
       /\ AllClaims \subseteq AllClaims' /\ AllClaims \subseteq 1..Len(log)
       /\ log' \in Seq(Record)
  BY <1>0, LogKept, ClaimsGrow DEF Landed, AllClaims, Claims
<1>000. log'[i].consumed \in Nat
  BY <1>00 DEF Record, Fields
<1> DEFINE c == log'[i].claim
           m == log'[i].consumed
<1>1. CASE i \in 1..Len(log)
  <2>1. log'[i] = log[i] /\ MarkLine(i)
    BY <1>0, <1>1, LogKept DEF AsksInv
  <2>2. /\ c \in AllClaims /\ m \in 0..Len(log)
        /\ \A w \in Workers : wk[w].up /\ wk[w].claim = c /\ ~wk[w].failed =>
             wk[w].pc # "answers" /\ Covered(log, wk[w], m)
    BY <1>00, <1>000, <2>1 DEF MarkLine
  <2> HIDE DEF c, m
  <2>3. ASSUME NEW w \in Workers, wk'[w].up, wk'[w].claim = c, ~wk'[w].failed
        PROVE  wk'[w].pc # "answers" /\ Covered(log', wk'[w], m)
    <3>1. c # 0 /\ c # Len(log) + 1
      BY <1>00, <2>2
    <3>2. wk[w].up /\ wk[w].claim = c
      <4>1. CASE wk[w].claim # 0
        BY <1>0, <2>3, <4>1, ClaimsKept, StepAsks DEF HeldLine, Ended
      <4>2. CASE wk[w].claim = 0
        BY <1>0, <2>3, <3>1, <4>2, StepAsks DEF HeldLine, Ended, Waits
      <4> QED
        BY <4>1, <4>2
    <3>3. ~wk[w].failed
      BY <1>0, <2>3, <3>1, <3>2, FailedKept
    <3> QED
      BY <1>0, <2>2, <2>3, <3>1, <3>2, <3>3, CoverStays
  <2>4. c \in AllClaims' /\ m <= Len(log')
    BY <1>00, <2>2
  <2> QED
    BY <2>3, <2>4 DEF MarkLine, c, m
<1>2. CASE i \notin 1..Len(log)
  <2>1. Landed /\ i = Len(log') /\ Newest = log'[i]
    BY <1>0, <1>00, <1>2, LogKept DEF Landed, Newest
  <2>2. PICK x \in Workers :
          /\ WorkerStep(x) /\ wk[x].pc # "answers"
          /\ c = wk[x].claim /\ c \in AllClaims
          /\ m = wk[x].mark /\ m \in 0..Len(log)
          /\ wk[x].failed \/ Covered(log, wk[x], m)
    BY <1>0, <2>1, NewMark DEF AsksInv, CoverLine
  <2> HIDE DEF c, m
  <2>3. ASSUME NEW w \in Workers, wk'[w].up, wk'[w].claim = c, ~wk'[w].failed
        PROVE  wk'[w].pc # "answers" /\ Covered(log', wk'[w], m)
    <3>1. c # 0
      BY <1>00, <2>2
    <3>2. w = x
      <4>1. SUFFICES ASSUME w # x PROVE FALSE
        OBVIOUS
      <4>2. wk'[w] = wk[w]
        BY <1>0, <2>2, <4>1 DEF WorkerStep, TypeInv, TypeOK
      <4> QED
        BY <1>0, <2>2, <2>3, <3>1, <4>1, <4>2 DEF WriterInv
    <3>3. ~wk[x].failed
      BY <1>0, <2>2, <2>3, <3>1, <3>2, FailedKept
    <3> QED
      BY <1>0, <2>2, <2>3, <3>1, <3>2, <3>3, CoverStays
  <2>4. c \in AllClaims' /\ m <= Len(log')
    BY <1>00, <2>2
  <2> QED
    BY <2>3, <2>4 DEF MarkLine, c, m
<1> QED
  BY <1>1, <1>2

-----------------------------------------------------------------------------
(* What the watermarks say of a worker that no exit has left live by       *)
(* raising (worker.py, _drain and _exit_cas: the exception leaves the claim *)
(* held and the iteration callable, after the exit passed over             *)
(* subscriptions).                                                         *)

LEMMA AsksHold == Spec => []AsksInv
<1>1. Init => AsksInv
  BY DEF Init, NewWorker, AsksInv, CoverLine, Ready
<1>2. ASSUME RunInv, HeldInv, AsksInv, [Next]_vars PROVE AsksInv'
  <2>1. TypeInv /\ WriterInv /\ ReportsInv /\ Step
    BY <1>2, NextStep DEF RunInv, ClaimInv
  <2>2. ASSUME NEW w \in Workers PROVE CoverLine(log', wk'[w])
    BY <1>2, <2>1, StepKeepsCover DEF HeldInv, AsksInv
  <2>3. ASSUME NEW i \in 1..Len(log'), IsMark(log'[i]) PROVE MarkLine(i)'
    BY <1>2, <2>3, StepKeepsMarks
  <2> QED
    BY <2>2, <2>3 DEF AsksInv
<1> QED
  BY <1>1, <1>2, RunInvHolds, HeldHolds, PTL DEF Spec

(* A commit's or a heartbeat's consumed_seq tells what its worker has      *)
(* registered: a subscription at or below it is live in the worker's hands, *)
(* or its id is spent.  Of a worker that an exit left live by raising it   *)
(* says nothing: such an exit has moved the mark past what it passed over, *)
(* and nothing fences the next commit (worker.py:1400, 1665).              *)
THEOREM WatermarksAreHonest == Spec => []WatermarksHonest
<1>1. RunInv /\ AsksInv => WatermarksHonest
  <2> SUFFICES ASSUME RunInv, AsksInv, NEW i \in 1..Len(log), NEW w \in Workers,
                      log[i].topic \in {"commit", "heartbeat"},
                      wk[w].up, wk[w].claim = log[i].claim, ~wk[w].failed,
                      NEW k \in 1..log[i].consumed,
                      log[k].topic = "subscribe", log[k].rid # NoId
               PROVE  log[k].rid \in wk[w].spent \/ wk[w].subs[log[k].rid] # "none"
    BY DEF WatermarksHonest
  <2>1. Covered(log, wk[w], log[i].consumed) /\ log[i].consumed <= Len(log)
    BY DEF AsksInv, MarkLine, IsMark
  <2>2. Len(log) \in Nat /\ log[i].consumed \in Nat
    BY RecordAt DEF RunInv, ClaimInv, TypeInv, TypeOK, Fields
  <2> QED
    BY <2>1, <2>2 DEF Covered, Subscription
<1> QED
  BY <1>1, AsksHold, RunInvHolds, PTL

(* A worker that retires does so only when every subscription the log asks *)
(* for is spent or has expired on its lineage, unless an earlier exit of   *)
(* its own raised and left it live.                                        *)
THEOREM RetirementsAreIdle == Spec => RetiresIdle
<1> DEFINE Idles(w) ==
             /\ wk[w].op = "exitCas" /\ wk[w].mode = "ITERATION" /\ ~wk[w].failed
             /\ wk'[w].phase = "stopped"
             => \A k \in 1..Len(log) : Subscription(log[k]) =>
                  \/ log[k].rid \in wk[w].spent
                  \/ /\ wk[w].subs[log[k].rid] = "durable"
                     /\ log[k].rid \in ExpiredOn(log, wk[w].node)
<1>1. ASSUME RunInv, HeldInv, AsksInv, [Next]_vars, NEW w \in Workers PROVE Idles(w)
  <2> DEFINE v == wk[w]
  <2>0. /\ TypeInv /\ WriterInv /\ ReportsInv /\ HeldLine(log, v) /\ CoverLine(log, v)
        /\ v \in WorkerState /\ Len(log) \in Nat
    BY <1>1, StateOf DEF RunInv, ClaimInv, HeldInv, AsksInv
  <2> SUFFICES ASSUME v.op = "exitCas", v.mode = "ITERATION", ~v.failed,
                      wk'[w].phase = "stopped",
                      NEW k \in 1..Len(log), Subscription(log[k])
               PROVE  \/ log[k].rid \in v.spent
                      \/ /\ v.subs[log[k].rid] = "durable"
                         /\ log[k].rid \in ExpiredOn(log, v.node)
    OBVIOUS
  <2>1. v.up /\ Ready(v) /\ Sound(v)
    BY <2>0 DEF HeldLine, Sound, Serving
  <2>2. Passed(log, v) /\ Covered(log, v, v.mark) /\ v.claim # 0
    BY <2>0, <2>1 DEF HeldLine, CoverLine, Ready, WriterInv
  <2>3. RetiresOf(v)
    <3>1. wk'[w] # v /\ ~Ended(wk'[w])
      BY <2>1 DEF Ready, Ended
    <3>2. Moves(w)
      BY <1>1, <2>0, <2>1, <2>2, <3>1, StepAsks
    <3> QED
      BY <2>1, <3>2 DEF Moves, Modes, Ready
  <2>4. Live(v) = {} /\ Undrained(v) = {} /\ v.w = Len(log)
    BY <2>3 DEF RetiresOf, Serves
  <2>5. log[k].rid \in RequestIds /\ IsControl(log[k])
    BY <2>0, RecordAt
    DEF Subscription, TypeInv, TypeOK, Fields, IsControl, ControlTopics
  <2>6. k <= v.mark
    <3>1. v.mark \in Nat
      BY <2>0 DEF WorkerState
    <3> QED
      BY <2>0, <2>2, <2>4, <2>5, <3>1, NonePassed
  <2>7. log[k].rid \in v.spent \/ v.subs[log[k].rid] # "none"
    BY <2>2, <2>6 DEF Covered
  <2>8. v.subs[log[k].rid] \in {"none", "durable", "lease"}
    BY <2>0, <2>5 DEF WorkerState
  <2> QED
    BY <2>4, <2>5, <2>7, <2>8 DEF Live
<1>2. ASSUME RunInv, HeldInv, AsksInv, [Next]_vars
      PROVE  [\A w \in Workers :
                LET s == wk[w]
                IN  /\ s.op = "exitCas" /\ s.mode = "ITERATION" /\ wk'[w].phase = "stopped"
                    /\ ~s.failed
                    => \A k \in 1..Len(log) :
                         log[k].topic = "subscribe" /\ log[k].rid # NoId =>
                           \/ log[k].rid \in s.spent
                           \/ /\ s.subs[log[k].rid] = "durable"
                              /\ log[k].rid \in ExpiredOn(log, s.node)]_vars
  <2>1. \A w \in Workers : Idles(w)
    BY <1>1, <1>2
  <2> QED
    BY <2>1 DEF Subscription
<1> QED
  BY <1>2, AsksHold, HeldHolds, RunInvHolds, PTL DEF RetiresIdle, Spec

-----------------------------------------------------------------------------
(* The stops and the refusals: what a worker has answered of the records   *)
(* it has read, and where the log says so.                                 *)

Subscribed(lg) == {r \in RequestIds : \E k \in 1..Len(lg) :
                     lg[k].topic = "subscribe" /\ lg[k].rid = r}

Answered(s, e) ==
  /\ e.topic = "stop" /\ e.rid # NoId => e.rid \in s.spent \/ s.stops[e.rid] # "none"
  /\ e.topic = "unknown" /\ e.rid # NoId => e.rid \in s.spent

OnLog(lg) == Spent(lg, Len(lg)) \cup Subscribed(lg)

Answers(lg, s) ==
  /\ Spent(lg, s.claim - 1) \subseteq s.spent
  /\ s.spent \subseteq OnLog(lg)
  /\ \A r \in RequestIds : s.stops[r] # "none" => r \notin Spent(lg, s.claim - 1)
  /\ \A r \in RequestIds : s.subs[r] # "none" => r \in Subscribed(lg)
  /\ \A k \in 1..Len(lg) : k <= s.mark => Answered(s, lg[k])

AnswersInv == \A w \in Workers : wk[w].up /\ wk[w].folded => Answers(log, wk[w])

LEMMA SpentGrows ==
  ASSUME TypeInv, LogStep
  PROVE  /\ \A W \in 0..Len(log) : Spent(log', W) = Spent(log, W)
         /\ Spent(log, Len(log)) \subseteq Spent(log', Len(log'))
         /\ Subscribed(log) \subseteq Subscribed(log')
         /\ OnLog(log) \subseteq OnLog(log')
         /\ \A k \in 1..Len(log') : SpentBy(log'[k]) \subseteq Spent(log', Len(log'))
         /\ \A W \in 0..Len(log) : Spent(log, W) \subseteq Spent(log, Len(log))
<1>1. /\ Len(log) \in Nat /\ Len(log') \in Nat /\ Len(log) <= Len(log')
      /\ \A i \in 1..Len(log) : log'[i] = log[i]
  BY LogKept DEF Landed
<1>2. ASSUME NEW W \in 0..Len(log) PROVE Spent(log', W) = Spent(log, W)
  <2>1. \A i \in 1..W : log'[i] = log[i]
    BY <1>1
  <2>2. \A i \in 1..W : SpentBy(log'[i]) = SpentBy(log[i])
    BY <2>1, Zenon
  <2> QED
    BY <2>2 DEF Spent
<1>3. Spent(log', Len(log)) \subseteq Spent(log', Len(log'))
  BY <1>1 DEF Spent
<1>4. Subscribed(log) \subseteq Subscribed(log')
  BY <1>1 DEF Subscribed
<1>5. \A k \in 1..Len(log') : SpentBy(log'[k]) \subseteq Spent(log', Len(log'))
  BY DEF Spent
<1>6. \A W \in 0..Len(log) : Spent(log, W) \subseteq Spent(log, Len(log))
  BY <1>1 DEF Spent
<1>7. Spent(log, Len(log)) \subseteq Spent(log', Len(log'))
  BY <1>1, <1>2, <1>3
<1> QED
  BY <1>2, <1>4, <1>5, <1>6, <1>7 DEF OnLog

(* What every step but the fold does to the answers. *)
Answering(v, t) ==
  /\ v.spent \subseteq t.spent
  /\ t.spent \subseteq v.spent \cup OnLog(log')
  /\ \A r \in RequestIds :
       /\ t.stops[r] # "none" => v.stops[r] # "none" \/ r \notin v.spent
       /\ v.stops[r] # "none" => t.stops[r] # "none" \/ r \in t.spent
       /\ t.subs[r] # "none" => v.subs[r] # "none" \/ r \in Subscribed(log)

LEMMA DropsAnswer ==
  ASSUME NEW v, NEW t, NEW r \in OnLog(log'), Drops(v, t, r)
  PROVE  Answering(v, t)
BY DEF Drops, Answering

LEMMA TakenAnswers ==
  ASSUME TypeInv, LogStep, NEW w \in Workers, NEW j \in 1..Len(log),
         Taken(wk[w], wk'[w], j)
  PROVE  Answering(wk[w], wk'[w]) /\ Answered(wk'[w], log[j])
<1> DEFINE v == wk[w]
           t == wk'[w]
           e == log[j]
           r == log[j].rid
           same == t.spent = v.spent /\ t.subs = v.subs /\ t.stops = v.stops
<1> SUFFICES Answering(v, t) /\ Answered(t, e)
  OBVIOUS
<1>0. /\ v \in WorkerState /\ e \in Fields /\ WellBodied(e) /\ r \in RequestIds \cup {NoId}
      /\ v.stops \in [RequestIds -> {"none", "now", "later", "held"}]
      /\ v.subs \in [RequestIds -> {"none", "durable", "lease"}]
  BY StateOf, RecordAt DEF TypeInv, TypeOK, Fields, WorkerState
<1>1. SpentBy(e) \subseteq OnLog(log')
  <2>1. j \in 1..Len(log') /\ log'[j] = e
    BY LogKept DEF Landed
  <2> QED
    BY <2>1, SpentGrows DEF OnLog
<1>2. e.topic = "subscribe" /\ r \in RequestIds =>
        r \in Subscribed(log) /\ r \in OnLog(log')
  <2>1. e.topic = "subscribe" /\ r \in RequestIds => r \in Subscribed(log)
    BY DEF Subscribed
  <2> QED
    BY <2>1, SpentGrows DEF OnLog
<1>3. CASE Skipped(v, e, j) /\ same
  BY <1>3 DEF Skipped, Answering, Answered, Answerable
<1>4. CASE /\ TakesStop(v, e)
           /\ t.spent = v.spent /\ t.subs = v.subs
           /\ t.stops = [v.stops EXCEPT ![r] = e.body]
  <2>1. r \in RequestIds /\ r \notin v.spent /\ e.topic = "stop" /\ e.body # "none"
    BY <1>0, <1>4 DEF TakesStop, Answerable, WellBodied
  <2>2. /\ t.stops[r] = e.body
        /\ \A q \in RequestIds : q # r => t.stops[q] = v.stops[q]
    BY <1>0, <1>4, <2>1
  <2> HIDE DEF v, t, e, r
  <2> QED
    BY <1>4, <2>1, <2>2 DEF Answering, Answered, e, r
<1>5. CASE TakesWithdraw(v, e) /\ Drops(v, t, r)
  <2>1. r \in RequestIds /\ e.topic = "withdraw" /\ r \in SpentBy(e)
    BY <1>5, IdAssumption DEF TakesWithdraw, Answerable, SpentBy
  <2> QED
    BY <1>1, <1>5, <2>1, DropsAnswer DEF Answered
<1>6. CASE VoidLease(v, e) /\ t.spent = v.spent \cup {r} /\ t.subs = v.subs /\ t.stops = v.stops
  <2>1. r \in RequestIds /\ e.topic = "subscribe"
    BY <1>6 DEF VoidLease, Subscribes, Answerable
  <2> QED
    BY <1>2, <1>6, <2>1 DEF Answering, Answered
<1>7. CASE /\ Accepted(v, e)
           /\ t.spent = v.spent /\ t.stops = v.stops
           /\ t.subs = [v.subs EXCEPT ![r] = e.body]
  <2>1. r \in RequestIds /\ e.topic = "subscribe"
    BY <1>7 DEF Accepted, Subscribes, Answerable
  <2>2. \A q \in RequestIds : q # r => t.subs[q] = v.subs[q]
    BY <1>0, <1>7
  <2> QED
    BY <1>2, <1>7, <2>1, <2>2 DEF Answering, Answered
<1>8. CASE Refused(v, e, j) /\ r = NoId /\ same
  BY <1>8 DEF Answering, Answered
<1>9. CASE Refused(v, e, j) /\ r # NoId /\ Drops(v, t, r) /\ Naks(r)
  <2> DEFINE n == [Blank EXCEPT !.topic = "nak", !.rid = r]
  <2>1. n \in Record
    BY <1>0, AnswerType
  <2>2. SpentBy(n) = {r}
    BY <1>9 DEF SpentBy, Blank
  <2>3. Len(log') = Len(log) + 1 /\ log'[Len(log')] = n
    BY <1>9, <2>1, Sent DEF Naks, TypeInv, TypeOK
  <2>4. r \in OnLog(log')
    <3>1. Len(log') \in 1..Len(log')
      BY <2>3, LogKept
    <3> QED
      BY <2>2, <2>3, <3>1, SpentGrows DEF OnLog
  <2> QED
    BY <1>9, <2>4, DropsAnswer DEF Answered, Drops
<1> QED
  BY <1>3, <1>4, <1>5, <1>6, <1>7, <1>8, <1>9 DEF Taken

LEMMA MoveAnswers ==
  ASSUME TypeInv, LogStep, NEW w \in Workers, AsksMove(wk[w], wk'[w]),
         wk[w].pc # "answers", Answers(log, wk[w])
  PROVE  Answering(wk[w], wk'[w])
<1> DEFINE v == wk[w]
           t == wk'[w]
<1> SUFFICES Answering(v, t)
  OBVIOUS
<1>1. CASE Keeps(v, t)
  BY <1>1 DEF Keeps, Answering
<1>2. CASE Expires(v, t)
  <2>1. \A r \in RequestIds : v.subs[r] = "lease" => r \in OnLog(log')
    BY SpentGrows DEF Answers, OnLog
  <2> QED
    BY <1>2, <2>1 DEF Expires, Answering
<1>3. CASE Takes(v, t)
  <2>1. PICK j \in Undrained(v) : Taken(v, t, j)
    BY <1>3 DEF Takes
  <2> QED
    BY <2>1, UndrainedOnLog, TakenAnswers
<1> QED
  BY <1>1, <1>2, <1>3 DEF AsksMove, Folds

LEMMA AnsweredStays ==
  ASSUME NEW v, NEW t, Answering(v, t), NEW e \in Fields, Answered(v, e)
  PROVE  Answered(t, e)
<1>1. e.rid # NoId => e.rid \in RequestIds
  BY DEF Fields
<1> QED
  BY <1>1 DEF Answering, Answered

(* The records read are those answered before, and the one just taken. *)
LEMMA TakenAnswered ==
  ASSUME TypeInv, LogStep, NEW w \in Workers, Takes(wk[w], wk'[w]),
         Passed(log, wk[w]), Answering(wk[w], wk'[w]),
         \A k \in 1..Len(log) : k <= wk[w].mark => Answered(wk[w], log[k]),
         NEW k \in 1..Len(log), k <= wk'[w].mark
  PROVE  Answered(wk'[w], log[k])
<1> DEFINE v == wk[w]
           t == wk'[w]
<1>0. /\ v.mark \in Nat /\ v.w \in 0..Len(log) /\ Len(log) \in Nat
      /\ log[k] \in Fields
  BY StateOf, RecordAt DEF WorkerState, TypeInv, TypeOK
<1>1. PICK j \in Undrained(v) : IsNext(v, j) /\ t.mark = j /\ Taken(v, t, j)
  BY DEF Takes
<1>2. j \in 1..Len(log) /\ j <= v.w
  BY <1>0, <1>1, UndrainedOnLog DEF Undrained
<1>3. CASE k <= v.mark
  BY <1>0, <1>3, AnsweredStays
<1>4. CASE k = j
  BY <1>1, <1>2, <1>4, TakenAnswers
<1>5. CASE k # j /\ ~(k <= v.mark)
  <2>1. k \notin Undrained(v)
    BY <1>0, <1>1, <1>2, <1>5 DEF IsNext
  <2>2. ~IsControl(log[k])
    BY <1>0, <1>1, <1>2, <1>5, <2>1, NonePassed
  <2> QED
    BY <2>2 DEF Answered, IsControl, ControlTopics
<1> QED
  BY <1>3, <1>4, <1>5

LEMMA AnswersGrow ==
  ASSUME TypeInv, LogStep, NEW v \in WorkerState, NEW t,
         v.claim \in 1..Len(log), v.mark <= Len(log), Answers(log, v),
         t.claim = v.claim, Answering(v, t),
         \A k \in 1..Len(log) : k <= t.mark => Answered(t, log[k]),
         t.mark \in 0..Len(log)
  PROVE  Answers(log', t)
<1>1. /\ Len(log) \in Nat /\ Len(log') \in Nat /\ Len(log) <= Len(log')
      /\ \A i \in 1..Len(log) : log'[i] = log[i]
  BY LogKept DEF Landed
<1> DEFINE c == v.claim - 1
<1>2. c \in 0..Len(log) /\ t.claim - 1 = c
  BY <1>1
<1>3. Spent(log', c) = Spent(log, c)
  BY <1>2, SpentGrows
<1> HIDE DEF c
<1>4. /\ Spent(log, c) \subseteq v.spent /\ v.spent \subseteq OnLog(log)
      /\ \A r \in RequestIds : v.stops[r] # "none" => r \notin Spent(log, c)
      /\ \A r \in RequestIds : v.subs[r] # "none" => r \in Subscribed(log)
  BY DEF Answers, c
<1>5. Spent(log', c) \subseteq t.spent /\ t.spent \subseteq OnLog(log')
  BY <1>3, <1>4, SpentGrows DEF Answering
<1>6. ASSUME NEW r \in RequestIds, t.stops[r] # "none" PROVE r \notin Spent(log', c)
  BY <1>3, <1>4, <1>6 DEF Answering
<1>7. ASSUME NEW r \in RequestIds, t.subs[r] # "none" PROVE r \in Subscribed(log')
  BY <1>4, <1>7, SpentGrows DEF Answering
<1>8. ASSUME NEW k \in 1..Len(log'), k <= t.mark PROVE Answered(t, log'[k])
  BY <1>1, <1>8
<1> QED
  BY <1>2, <1>5, <1>6, <1>7, <1>8 DEF Answers

LEMMA SameAnswers == \A v : Answering(v, v)
BY DEF Answering

LEMMA StepKeepsAnswers ==
  ASSUME RunInv, HeldInv, [Next]_vars, NEW w \in Workers,
         wk[w].up /\ wk[w].folded => Answers(log, wk[w]),
         wk'[w].up, wk'[w].folded
  PROVE  Answers(log', wk'[w])
<1> DEFINE v == wk[w]
           t == wk'[w]
<1> SUFFICES Answers(log', t)
  OBVIOUS
<1>0. /\ TypeInv /\ WriterInv /\ ReportsInv /\ Step /\ LogStep
      /\ HeldLine(log, v) /\ v \in WorkerState /\ v.mark \in Nat
      /\ Len(log) \in Nat /\ Len(log') \in Nat
  BY NextStep, StepGrows, StateOf, LogKept DEF RunInv, ClaimInv, HeldInv, WorkerState
<1>1. v.claim # 0 => v.claim \in 1..Len(log)
  BY <1>0, ClaimsGrow DEF WriterInv
<1>2. v.up /\ v.folded => /\ v.claim # 0 /\ v.pc # "answers"
                          /\ Passed(log, v) /\ v.mark \in 0..Len(log)
  BY <1>0 DEF WriterInv, HeldLine, Unclaimed, Bare, Passed
<1>3. CASE t = v
  <2>1. v.up /\ v.folded
    BY <1>3
  <2>2. /\ v.claim \in 1..Len(log) /\ v.mark \in 0..Len(log) /\ Answers(log, v)
        /\ \A k \in 1..Len(log) : k <= v.mark => Answered(v, log[k])
    BY <1>1, <1>2, <2>1 DEF Answers
  <2> HIDE DEF v, t
  <2> QED
    BY <1>0, <1>3, <2>2, SameAnswers, AnswersGrow
<1>4. CASE v.up /\ v.claim = 0 /\ Waits(v, t)
  BY <1>0, <1>4 DEF HeldLine, Unclaimed, Bare, Waits
<1>5. CASE v.up /\ v.claim # 0 /\ Moves(w) /\ Folds(v, t)
  <2>1. t.claim = v.claim /\ Bare(v)
    BY <1>0, <1>5, ClaimsKept DEF HeldLine, Unclaimed, Folds
  <2> DEFINE c == v.claim - 1
  <2>2. c \in 0..Len(log) /\ t.claim - 1 = c
    BY <1>0, <1>1, <1>5, <2>1
  <2>3. /\ Spent(log', c) = Spent(log, c)
        /\ Spent(log, c) \subseteq OnLog(log')
    BY <1>0, <2>2, SpentGrows DEF OnLog
  <2>4. /\ t.spent = Spent(log, c) /\ t.mark = 0
        /\ \A r \in RequestIds : t.stops[r] = "none" /\ t.subs[r] = "none"
    BY <1>5, <2>1 DEF Folds, Bare
  <2> HIDE DEF c, t, v
  <2> QED
    BY <1>0, <2>2, <2>3, <2>4 DEF Answers
<1>6. CASE v.up /\ v.claim # 0 /\ Moves(w) /\ v.folded
  <2>1. /\ v.pc # "answers" /\ Passed(log, v) /\ v.mark \in 0..Len(log)
        /\ Answers(log, v) /\ AsksMove(v, t) /\ t.claim = v.claim
        /\ v.claim \in 1..Len(log)
    BY <1>0, <1>1, <1>2, <1>6, ClaimsKept DEF Moves
  <2>2. Answering(v, t)
    BY <1>0, <2>1, MoveAnswers
  <2>3. \A k \in 1..Len(log) : k <= v.mark => Answered(v, log[k])
    BY <2>1 DEF Answers
  <2>4. CASE Takes(v, t)
    <3>1. ASSUME NEW k \in 1..Len(log), k <= t.mark PROVE Answered(t, log[k])
      BY <1>0, <2>1, <2>2, <2>3, <2>4, <3>1, TakenAnswered
    <3> PICK j \in Undrained(v) : t.mark = j
      BY <2>4 DEF Takes
    <3>2. t.mark \in 0..Len(log)
      BY <1>0, UndrainedOnLog
    <3> QED
      BY <1>0, <2>1, <2>2, <3>1, <3>2, AnswersGrow
  <2>5. CASE t.mark = v.mark
    <3>1. \A k \in 1..Len(log) : log[k] \in Fields
      BY <1>0, RecordAt DEF TypeInv, TypeOK
    <3>2. \A k \in 1..Len(log) : k <= t.mark => Answered(t, log[k])
      BY <2>2, <2>3, <2>5, <3>1, AnsweredStays
    <3> QED
      BY <1>0, <2>1, <2>2, <2>5, <3>2, AnswersGrow
  <2> QED
    BY <2>1, <2>4, <2>5 DEF AsksMove, Keeps, Folds, Expires
<1>7. CASE v.up /\ v.claim # 0 /\ Moves(w)
  BY <1>5, <1>6, <1>7 DEF Moves, Modes
<1> QED
  BY <1>0, <1>3, <1>4, <1>7, StepAsks DEF HeldLine, Ended

LEMMA AnswersHold == Spec => []AnswersInv
<1>1. Init => AnswersInv
  BY DEF Init, AnswersInv, NewWorker
<1>2. ASSUME RunInv, HeldInv, AnswersInv, [Next]_vars PROVE AnswersInv'
  BY <1>2, StepKeepsAnswers DEF AnswersInv
<1> QED
  BY <1>1, <1>2, RunInvHolds, HeldHolds, PTL DEF Spec

-----------------------------------------------------------------------------
(* What the exits on the log answer.                                       *)

NamedAnswered(lg, i) ==
  \A k \in 1..(i - 1) :
    /\ lg[k].topic \in {"stop", "unknown"} /\ lg[k].rid # NoId
         => lg[k].rid \in Spent(lg, i)
    /\ lg[k].topic = "stopped" => lg[k].honored \cap lg[i].honored = {}

NamedInv == \A i \in 1..Len(log) : FoldedExit(i) => NamedAnswered(log, i)

(* An asker gives a subscription's id to no stop, nor to what it asks in a *)
(* topic of its own.                                                       *)
DistinctIds ==
  \A a, b \in Asks :
    a.topic = "subscribe" /\ b.topic \in {"stop", "unknown"} /\ a.rid = b.rid
      => a.rid = NoId

AskedInv == \A k \in 1..Len(log) : IsControl(log[k]) => log[k] \in Asks

LEMMA StepKeepsAsked ==
  ASSUME TypeInv, AskedInv, Step
  PROVE  AskedInv'
<1>0. LogStep /\ (UNCHANGED log \/ Landed) /\ Len(log) \in Nat
      /\ \A i \in 1..Len(log) : log'[i] = log[i]
  BY StepGrows, LogKept
<1>1. ASSUME Landed, IsControl(Newest) PROVE Newest \in Asks
  <2>1. ~UNCHANGED log /\ \A e \in Record : Send(e) => Newest = e
    BY <1>1, Sent DEF Landed, Newest, TypeInv, TypeOK
  <2>2. ASSUME NEW w \in Workers, ClaimWon(w) PROVE FALSE
    BY <1>1, <2>1, <2>2 DEF ClaimWon, IsControl, ControlTopics
  <2>3. ASSUME NEW x \in Actors, ReportMoves(x) PROVE FALSE
    BY <1>1, <2>1, <2>3
    DEF ReportMoves, ReportGoesOn, ReportIsOver, IsControl, ControlTopics
  <2>4. ASSUME NEW w \in Workers, WorkerStep(w) PROVE FALSE
    <3>1. PICK e \in Record : Send(e) /\ Writes(wk[w], wk'[w], e)
      BY <2>1, <2>4 DEF WorkerStep, LogMoves
    <3> QED
      BY <1>1, <2>1, <3>1, SMTT(60) DEF Writes, IsControl, ControlTopics
  <2>5. Asked
    BY <2>1, <2>2, <2>3, <2>4 DEF Step, Probed, Gone, ReportBegins
  <2> QED
    BY <2>1, <2>5 DEF Asked
<1>2. ASSUME NEW k \in 1..Len(log'), IsControl(log'[k]), ~(k \in 1..Len(log))
      PROVE  log'[k] \in Asks
  <2>1. Landed /\ log'[k] = Newest
    BY <1>0, <1>2 DEF Landed, Newest
  <2> QED
    BY <1>1, <1>2, <2>1
<1> QED
  BY <1>0, <1>2 DEF AskedInv

(* A stop that was answered was not by a lease that ended.                 *)
LEMMA StopsDistinct ==
  ASSUME TypeInv, AskedInv, DistinctIds, NEW k \in 1..Len(log),
         log[k].topic \in {"stop", "unknown"}, log[k].rid # NoId
  PROVE  log[k].rid \notin Subscribed(log)
<1> SUFFICES ASSUME NEW j \in 1..Len(log),
                    log[j].topic = "subscribe", log[j].rid = log[k].rid
             PROVE  FALSE
  BY DEF Subscribed
<1>1. log[k] \in Asks /\ log[j] \in Asks
  BY DEF AskedInv, IsControl, ControlTopics
<1> QED
  BY <1>1 DEF DistinctIds

(* An exit is its writer's, who has read the log to its end, and whose     *)
(* claim nothing has ended.                                                *)
LEMMA NewExit ==
  ASSUME RunInv, Step, Landed, Newest.topic = "stopped"
  PROVE  \E w \in Workers :
           /\ WorkerStep(w) /\ wk[w].up
           /\ wk[w].pc = "take" /\ wk[w].w = Len(log) /\ Undrained(wk[w]) = {}
           /\ Newest.claim = wk[w].claim /\ Newest.honored = Honored(wk[w])
           /\ Readable(Newest) /\ wk[w].claim \in AllClaims
           /\ Endings(log, wk[w].claim, Len(log)) = {}
           /\ wk'[w].claim = wk[w].claim /\ (wk'[w].folded => wk[w].folded)
<1>0. TypeInv /\ WriterInv /\ ExitsInv
  BY DEF RunInv, ClaimInv
<1>1. ~UNCHANGED log /\ \A e \in Record : Send(e) => Newest = e
  BY <1>0, Sent DEF Landed, Newest, TypeInv, TypeOK
<1>2. PICK w \in Workers : WorkerStep(w)
  BY <1>0, NewNode DEF IsNode
<1>3. PICK e \in Record : Send(e) /\ Writes(wk[w], wk'[w], e)
  BY <1>1, <1>2 DEF WorkerStep, LogMoves
<1>4. Newest = e
  BY <1>1, <1>3
<1>5. /\ e.claim = wk[w].claim /\ e.honored = Honored(wk[w]) /\ Readable(e)
      /\ wk[w].pc = "take" /\ wk[w].w = Len(log) /\ Undrained(wk[w]) = {}
  BY <1>3, <1>4 DEF Writes
<1>6. wk[w].up /\ ~Done(wk[w]) /\ wk'[w].claim = wk[w].claim
      /\ (wk'[w].folded => wk[w].folded)
  BY <1>2, <1>5 DEF WorkerStep, ControlMoves
<1>7. wk[w].claim \in AllClaims /\ ~Reported(log, wk[w].claim, Len(log))
  BY <1>0, <1>5 DEF WriterInv, WorkPcs
<1>8. Endings(log, wk[w].claim, Len(log)) = {}
  BY <1>0, <1>6, <1>7, NoExitYet DEF Reported
<1> QED
  BY <1>2, <1>4, <1>5, <1>6, <1>7, <1>8

(* Whoever is done folds no more. *)
LEMMA DoneFolds ==
  ASSUME TypeInv, Step, NEW w \in Workers, Done(wk[w])
  PROVE  wk'[w].folded = wk[w].folded /\ wk'[w].claim = wk[w].claim
<1>0. \A u \in Workers : wk' = [wk EXCEPT ![u] = wk'[u]] /\ u # w => wk'[w] = wk[w]
  BY DEF TypeInv, TypeOK
<1>1. ASSUME NEW u \in Workers, WorkerStep(u) PROVE wk'[w] = wk[w]
  BY <1>0, <1>1 DEF WorkerStep, ControlMoves
<1>2. ASSUME NEW u \in Workers, ClaimWon(u) PROVE wk'[w] = wk[w]
  BY <1>0, <1>2 DEF ClaimWon, Done
<1>3. ASSUME NEW u \in Workers, Gone(u)
      PROVE  wk'[w].folded = wk[w].folded /\ wk'[w].claim = wk[w].claim
  BY <1>0, <1>3 DEF Gone
<1>4. ASSUME NEW x \in Actors, ReportMoves(x)
      PROVE  wk'[w].folded = wk[w].folded /\ wk'[w].claim = wk[w].claim
  <2>1. CASE UNCHANGED wk
    BY <2>1
  <2>2. CASE x \in Workers /\ wk' = [wk EXCEPT ![x] = wk'[x]] /\ Claimant(wk[x], wk'[x])
    BY <1>0, <2>2 DEF Claimant, Frame
  <2> QED
    BY <1>4, <2>1, <2>2 DEF ReportMoves, ReportGoesOn, ReportIsOver
<1> QED
  BY <1>1, <1>2, <1>3, <1>4 DEF Step, Probed, ReportBegins, Asked

(* A claim on the log has the worker it had. *)
LEMMA ClaimsOld ==
  ASSUME TypeInv, WriterInv, Step, NEW w \in Workers, wk'[w].claim \in AllClaims
  PROVE  wk[w].claim = wk'[w].claim
<1>0. /\ \A u \in Workers : wk' = [wk EXCEPT ![u] = wk'[u]] /\ u # w => wk'[w] = wk[w]
      /\ wk'[w].claim \in 1..Len(log) /\ Len(log) \in Nat
  BY StepGrows, LogKept, ClaimsGrow DEF TypeInv, TypeOK
<1>1. ASSUME NEW u \in Workers, WorkerStep(u) PROVE wk[w].claim = wk'[w].claim
  BY <1>0, <1>1 DEF WorkerStep, ControlMoves
<1>2. ASSUME NEW u \in Workers, ClaimWon(u) PROVE wk[w].claim = wk'[w].claim
  BY <1>0, <1>2 DEF ClaimWon
<1>3. ASSUME NEW u \in Workers, Gone(u) PROVE wk[w].claim = wk'[w].claim
  BY <1>0, <1>3 DEF Gone
<1>4. ASSUME NEW x \in Actors, ReportMoves(x) PROVE wk[w].claim = wk'[w].claim
  <2>1. CASE UNCHANGED wk
    BY <2>1
  <2>2. CASE x \in Workers /\ wk' = [wk EXCEPT ![x] = wk'[x]] /\ Claimant(wk[x], wk'[x])
    BY <1>0, <2>2 DEF Claimant, Frame
  <2> QED
    BY <1>4, <2>1, <2>2 DEF ReportMoves, ReportGoesOn, ReportIsOver
<1> QED
  BY <1>1, <1>2, <1>3, <1>4 DEF Step, Probed, ReportBegins, Asked

(* An exit that was not a folded claim's is none now. *)
LEMMA FoldedOld ==
  ASSUME RunInv, Step, NEW i \in 1..Len(log), FoldedExit(i)'
  PROVE  FoldedExit(i)
<1>0. TypeInv /\ WriterInv /\ ExitsInv /\ LogStep
  BY StepGrows DEF RunInv, ClaimInv
<1>1. log'[i] = log[i] /\ log[i].topic = "stopped"
  BY <1>0, LogKept DEF FoldedExit
<1>2. log[i].claim \in AllClaims
  BY <1>0, <1>1 DEF ExitsInv
<1> PICK w \in Workers : wk'[w].claim = log[i].claim /\ wk'[w].folded
  BY <1>1 DEF FoldedExit
<1>3. wk[w].claim = log[i].claim
  BY <1>0, <1>2, ClaimsOld
<1>4. wk[w].folded
  BY <1>0, <1>1, <1>3, DoneFolds DEF ExitsInv
<1> QED
  BY <1>1, <1>3, <1>4 DEF FoldedExit

(* No earlier exit answered what a claim's own exit honors: it is below    *)
(* the claim, whose fold read it. *)
LEMMA HonoredOnce ==
  ASSUME RunInv, NEW w \in Workers, wk[w].claim \in AllClaims,
         Endings(log, wk[w].claim, Len(log)) = {}, Answers(log, wk[w]),
         NEW k \in 1..Len(log), log[k].topic = "stopped"
  PROVE  log[k].honored \cap Honored(wk[w]) = {}
<1> DEFINE c == wk[w].claim
           d == log[k].claim
<1>0. /\ TypeInv /\ ExitsInv /\ ClaimsExclusive /\ Len(log) \in Nat
      /\ c \in 1..Len(log)
  BY DEF RunInv, ClaimInv, TypeInv, TypeOK, AllClaims, Claims
<1>1. /\ Readable(log[k]) /\ d \in AllClaims /\ d < k
      /\ \A j \in Endings(log, d, Len(log)) : j = k
      /\ d \in 1..Len(log)
  BY <1>0 DEF ExitsInv, AllClaims, Claims
<1>2. d # c
  BY <1>0, <1>1 DEF Endings
<1>3. ~(c < d)
  <2> SUFFICES ASSUME c < d PROVE FALSE
    OBVIOUS
  <2>1. Endings(log, c, d - 1) # {}
    BY <1>0, <1>1 DEF ClaimsExclusive
  <2>2. Endings(log, c, d - 1) \subseteq Endings(log, c, Len(log))
    BY <1>0, <1>1 DEF Endings
  <2> QED
    BY <2>1, <2>2
<1>4. k \in 1..(c - 1)
  <2>1. PICK j \in Endings(log, d, c - 1) : TRUE
    BY <1>0, <1>1, <1>2, <1>3 DEF ClaimsExclusive
  <2>2. j \in Endings(log, d, Len(log)) /\ j \in 1..(c - 1)
    BY <1>0, <1>1, <2>1 DEF Endings
  <2> QED
    BY <1>1, <2>2
<1>5. log[k].honored \subseteq Spent(log, c - 1)
  <2>1. SpentBy(log[k]) = log[k].honored
    BY <1>1, Zenon DEF SpentBy
  <2> QED
    BY <1>4, <2>1 DEF Spent
<1>6. \A r \in Honored(wk[w]) : r \notin Spent(log, c - 1)
  BY DEF Honored, Answers
<1> QED
  BY <1>5, <1>6

LEMMA NewNamed ==
  ASSUME RunInv, HeldInv, AnswersInv, AskedInv, DistinctIds, Step,
         Landed, FoldedExit(Len(log))'
  PROVE  NamedAnswered(log', Len(log'))
<1>0. /\ TypeInv /\ WriterInv /\ LogStep
  BY StepGrows DEF RunInv, ClaimInv
<1>1. /\ Len(log) \in Nat /\ Len(log') = Len(log) + 1
      /\ \A i \in 1..Len(log) : log'[i] = log[i]
  BY <1>0, LogKept DEF Landed
<1>2. Newest.topic = "stopped"
  BY DEF FoldedExit, Newest
<1> PICK w \in Workers :
      /\ WorkerStep(w) /\ wk[w].up
      /\ wk[w].w = Len(log) /\ Undrained(wk[w]) = {}
      /\ Newest.claim = wk[w].claim /\ Newest.honored = Honored(wk[w])
      /\ Readable(Newest) /\ wk[w].claim \in AllClaims
      /\ Endings(log, wk[w].claim, Len(log)) = {}
      /\ wk'[w].claim = wk[w].claim /\ (wk'[w].folded => wk[w].folded)
  BY <1>2, NewExit
<1> DEFINE v == wk[w]
<1>3. v.folded
  <2> PICK u \in Workers : wk'[u].claim = Newest.claim /\ wk'[u].folded
    BY DEF FoldedExit, Newest
  <2>1. wk[u].claim = v.claim
    BY <1>0, ClaimsOld
  <2>2. u = w
    <3>1. v.claim # 0
      BY DEF AllClaims, Claims
    <3> QED
      BY <1>0, <2>1, <3>1 DEF WriterInv
  <2> QED
    BY <2>2
<1>4. Answers(log, v) /\ Passed(log, v) /\ v.mark \in Nat
  BY <1>0, <1>3, StateOf DEF AnswersInv, HeldInv, HeldLine, WorkerState
<1>5. ASSUME NEW k \in 1..Len(log),
             log[k].topic \in {"stop", "unknown"}, log[k].rid # NoId
      PROVE  log[k].rid \in Spent(log', Len(log'))
  <2> DEFINE r == log[k].rid
  <2>1. r \in RequestIds
    BY <1>0, <1>5, RecordAt DEF TypeInv, TypeOK, Fields
  <2>2. k <= v.mark
    BY <1>0, <1>1, <1>4, <1>5, NonePassed DEF IsControl, ControlTopics
  <2>3. r \in v.spent \/ v.stops[r] # "none"
    BY <1>4, <1>5, <2>2 DEF Answers, Answered
  <2>4. r \notin Subscribed(log)
    BY <1>0, <1>5, StopsDistinct
  <2>5. r \in v.spent => r \in Spent(log', Len(log'))
    BY <1>0, <1>4, <2>4, SpentGrows DEF Answers, OnLog
  <2>6. v.stops[r] # "none" => r \in SpentBy(Newest)
    <3>1. SpentBy(Newest) = Honored(v)
      BY <1>2, Zenon DEF SpentBy
    <3> QED
      BY <2>1, <3>1 DEF Honored
  <2>7. SpentBy(Newest) \subseteq Spent(log', Len(log'))
    BY <1>0, <1>1, SpentGrows DEF Newest
  <2> QED
    BY <2>3, <2>5, <2>6, <2>7
<1>6. ASSUME NEW k \in 1..Len(log), log[k].topic = "stopped"
      PROVE  log[k].honored \cap Newest.honored = {}
  BY <1>4, <1>6, HonoredOnce
<1> QED
  BY <1>1, <1>5, <1>6 DEF NamedAnswered, Newest

LEMMA StepKeepsNamed ==
  ASSUME RunInv, HeldInv, AnswersInv, AskedInv, DistinctIds, NamedInv, Step
  PROVE  NamedInv'
<1>0. /\ TypeInv /\ LogStep
  BY StepGrows DEF RunInv, ClaimInv
<1>1. /\ Len(log) \in Nat /\ Len(log') \in Nat /\ (UNCHANGED log \/ Landed)
      /\ \A i \in 1..Len(log) : log'[i] = log[i]
  BY <1>0, LogKept
<1> SUFFICES ASSUME NEW i \in 1..Len(log'), FoldedExit(i)'
             PROVE  NamedAnswered(log', i)
  BY DEF NamedInv
<1>2. CASE i \in 1..Len(log)
  <2>1. NamedAnswered(log, i)
    BY <1>2, FoldedOld DEF NamedInv
  <2>2. Spent(log', i) = Spent(log, i)
    BY <1>0, <1>1, <1>2, SpentGrows
  <2>3. \A k \in 1..(i - 1) : log'[k] = log[k]
    BY <1>1, <1>2
  <2> QED
    BY <1>1, <1>2, <2>1, <2>2, <2>3 DEF NamedAnswered
<1>3. CASE i \notin 1..Len(log)
  <2>1. Landed /\ i = Len(log')
    BY <1>1, <1>3 DEF Landed
  <2>2. FoldedExit(Len(log))'
    BY <2>1 DEF FoldedExit
  <2> QED
    BY <2>1, <2>2, NewNamed
<1> QED
  BY <1>2, <1>3

LEMMA NamedHold ==
  ASSUME DistinctIds
  PROVE  Spec => [](AskedInv /\ NamedInv)
<1>1. Init => AskedInv /\ NamedInv
  BY DEF Init, AskedInv, NamedInv
<1>2. ASSUME RunInv, HeldInv, AnswersInv, AskedInv, NamedInv, [Next]_vars
      PROVE  AskedInv' /\ NamedInv'
  <2>1. TypeInv /\ Step
    BY <1>2, NextStep DEF RunInv, ClaimInv
  <2> QED
    BY <1>2, <2>1, StepKeepsAsked, StepKeepsNamed
<1> QED
  BY <1>1, <1>2, RunInvHolds, HeldHolds, AnswersHold, PTL DEF Spec

-----------------------------------------------------------------------------
(* The nameless records, which nothing tells apart: how many were asked,   *)
(* and how many refused.                                                   *)

NamelessIn(lg, T, m) == {k \in 1..m : lg[k].topic \in T /\ lg[k].rid = NoId}

Cleared(lg, m, w) ==
  Cardinality(NamelessIn(lg, ControlTopics, m)) <= Cardinality(NamelessIn(lg, {"nak"}, w))

LEMMA NamelessFinite ==
  ASSUME NEW lg, NEW T, NEW m \in Nat
  PROVE  /\ IsFiniteSet(NamelessIn(lg, T, m))
         /\ Cardinality(NamelessIn(lg, T, m)) \in Nat
<1>1. IsFiniteSet(1..m)
  BY FS_Interval
<1>2. NamelessIn(lg, T, m) \subseteq 1..m
  BY DEF NamelessIn
<1> QED
  BY <1>1, <1>2, FS_Subset, FS_CardinalityType

LEMMA ClearedWithin ==
  ASSUME NEW lg, NEW m \in Nat, NEW n \in Nat, NEW w \in Nat, NEW x \in Nat, w <= x,
         NamelessIn(lg, ControlTopics, m) \subseteq NamelessIn(lg, ControlTopics, n),
         Cleared(lg, n, w)
  PROVE  Cleared(lg, m, x)
<1>1. NamelessIn(lg, {"nak"}, w) \subseteq NamelessIn(lg, {"nak"}, x)
  BY DEF NamelessIn
<1> DEFINE Am == NamelessIn(lg, ControlTopics, m)
           An == NamelessIn(lg, ControlTopics, n)
           Kw == NamelessIn(lg, {"nak"}, w)
           Kx == NamelessIn(lg, {"nak"}, x)
<1>2. /\ IsFiniteSet(An) /\ IsFiniteSet(Kx)
      /\ Cardinality(Am) \in Nat /\ Cardinality(An) \in Nat
      /\ Cardinality(Kw) \in Nat /\ Cardinality(Kx) \in Nat
  BY NamelessFinite
<1>3. Am \subseteq An /\ Kw \subseteq Kx /\ Cardinality(An) <= Cardinality(Kw)
  BY <1>1 DEF Cleared
<1>4. SUFFICES Cardinality(Am) <= Cardinality(Kx)
  BY DEF Cleared
<1> HIDE DEF Am, An, Kw, Kx
<1>5. Cardinality(Am) <= Cardinality(An) /\ Cardinality(Kw) <= Cardinality(Kx)
  BY <1>2, <1>3, FS_Subset
<1> QED
  BY <1>2, <1>3, <1>5

LEMMA ClearedAfter ==
  ASSUME NEW lg, NEW m \in Nat, NEW k \in Nat, NEW w \in Nat,
         NamelessIn(lg, ControlTopics, k) \subseteq NamelessIn(lg, ControlTopics, m) \cup {k},
         Cleared(lg, m, w), lg[w + 1].topic = "nak", lg[w + 1].rid = NoId
  PROVE  Cleared(lg, k, w + 1)
<1> DEFINE Am == NamelessIn(lg, ControlTopics, m)
           Ak == NamelessIn(lg, ControlTopics, k)
           Kw == NamelessIn(lg, {"nak"}, w)
           Kx == NamelessIn(lg, {"nak"}, w + 1)
<1>1. Kx = Kw \cup {w + 1} /\ w + 1 \notin Kw
  BY DEF NamelessIn
<1>2. /\ IsFiniteSet(Am) /\ IsFiniteSet(Kw)
      /\ Cardinality(Am) \in Nat /\ Cardinality(Ak) \in Nat /\ Cardinality(Kw) \in Nat
  BY NamelessFinite
<1>3. Ak \subseteq Am \cup {k} /\ Cardinality(Am) <= Cardinality(Kw)
  BY DEF Cleared
<1>4. SUFFICES Cardinality(Ak) <= Cardinality(Kx)
  BY DEF Cleared
<1> HIDE DEF Am, Ak, Kw, Kx
<1>5. Cardinality(Kx) = Cardinality(Kw) + 1
  BY <1>1, <1>2, FS_AddElement
<1>6. /\ IsFiniteSet(Am \cup {k}) /\ Cardinality(Am \cup {k}) \in Nat
      /\ Cardinality(Am \cup {k}) <= Cardinality(Am) + 1
  <2>1. /\ IsFiniteSet(Am \cup {k})
        /\ Cardinality(Am \cup {k})
             = IF k \in Am THEN Cardinality(Am) ELSE Cardinality(Am) + 1
    BY <1>2, FS_AddElement, Zenon
  <2> QED
    BY <1>2, <2>1
<1>7. Cardinality(Ak) <= Cardinality(Am \cup {k})
  BY <1>3, <1>6, FS_Subset
<1> QED
  BY <1>2, <1>3, <1>5, <1>6, <1>7

LEMMA NamelessKept ==
  ASSUME TypeInv, LogStep, NEW m \in 0..Len(log), NEW T
  PROVE  NamelessIn(log', T, m) = NamelessIn(log, T, m)
BY LogKept DEF NamelessIn

LEMMA ClearedKept ==
  ASSUME TypeInv, LogStep, NEW m \in 0..Len(log), NEW w \in 0..Len(log), Cleared(log, m, w)
  PROVE  Cleared(log', m, w) /\ (\A x \in Nat : w <= x => Cleared(log', m, x))
<1>1. Cleared(log', m, w)
  BY NamelessKept DEF Cleared
<1>2. m \in Nat /\ w \in Nat
  BY LogKept
<1> QED
  BY <1>1, <1>2, ClearedWithin

LEMMA GreatestOf ==
  ASSUME NEW W \in Nat, NEW S \in SUBSET (1..W), S # {}
  PROVE  \E x \in S : \A y \in S : y <= x
<1> DEFINE R == {y \in 0..W : W - y \in S}
<1>1. R \in SUBSET Nat
  OBVIOUS
<1>2. \A x \in S : W - x \in R
  OBVIOUS
<1>3. R # {}
  BY <1>2
<1>4. PICK z \in R : \A y \in R : z <= y
  BY <1>1, <1>3, LeastOf
<1>5. W - z \in S /\ z \in 0..W
  OBVIOUS
<1>6. ASSUME NEW y \in S PROVE y <= W - z
  <2>1. z <= W - y
    BY <1>2, <1>4
  <2> QED
    BY <1>5, <2>1
<1> QED
  BY <1>5, <1>6

(* A watermark is one that some record below w carries. *)
LEMMA PreviousIs ==
  ASSUME NEW lg, NEW w \in Nat
  PROVE  \/ PreviousWatermark(lg, w) = 0
         \/ \E i \in 1..w : /\ lg[i].topic \in {"commit", "heartbeat", "stopped"}
                            /\ PreviousWatermark(lg, w) = MarkOf(lg, i)
<1> DEFINE marked == {c \in Claims(lg, w) : Marks(lg, c, w) # {}}
           newest == CHOOSE c \in marked : \A d \in marked : d <= c
           marks  == Marks(lg, newest, w)
           last   == CHOOSE i \in marks : \A j \in marks : j <= i
<1>1. SUFFICES ASSUME marked # {}
               PROVE  \E i \in 1..w : /\ lg[i].topic \in {"commit", "heartbeat", "stopped"}
                                      /\ PreviousWatermark(lg, w) = MarkOf(lg, i)
  BY DEF PreviousWatermark
<1>2. PreviousWatermark(lg, w) = MarkOf(lg, last)
  BY <1>1 DEF PreviousWatermark
<1>3. marked \in SUBSET (1..w)
  BY DEF Claims
<1>4. newest \in marked
  <2> HIDE DEF marked
  <2>1. \E c \in marked : \A d \in marked : d <= c
    BY <1>1, <1>3, GreatestOf
  <2> QED
    BY <2>1
<1>5. marks # {} /\ marks \in SUBSET (1..w)
  <2>1. newest \in 1..w /\ Marks(lg, newest, w) # {}
    BY <1>3, <1>4
  <2> HIDE DEF newest
  <2> QED
    BY <2>1 DEF Marks
<1>6. last \in marks
  <2> HIDE DEF marks
  <2>1. \E i \in marks : \A j \in marks : j <= i
    BY <1>5, GreatestOf
  <2> QED
    BY <2>1
<1>7. last \in 1..w /\ lg[last].topic \in {"commit", "heartbeat", "stopped"}
  <2> HIDE DEF newest, last
  <2> QED
    BY <1>5, <1>6 DEF Marks
<1> HIDE DEF last
<1> QED
  BY <1>2, <1>7

-----------------------------------------------------------------------------
(* Below what a worker has read, every nameless record has been refused.   *)

ClearedTo(s) == s.up /\ s.folded => Cleared(log, s.mark, Len(log))

ClearedMark(i) ==
  log[i].topic \in {"commit", "heartbeat", "stopped"} =>
    MarkOf(log, i) \in 0..i /\ Cleared(log, MarkOf(log, i), i)

ClearedInv ==
  /\ \A w \in Workers : wk[w].up /\ wk[w].pc \in Busy => wk[w].folded
  /\ \A w \in Workers : ClearedTo(wk[w])
  /\ \A i \in 1..Len(log) : ClearedMark(i)

LEMMA PreviousCleared ==
  ASSUME TypeInv, NEW c \in 0..Len(log), \A i \in 1..Len(log) : ClearedMark(i),
         NEW k \in 1..Len(log), k <= PreviousWatermark(log, c)
  PROVE  Cleared(log, k, Len(log))
<1>0. Len(log) \in Nat
  BY DEF TypeInv, TypeOK
<1>1. PICK i \in 1..c : /\ log[i].topic \in {"commit", "heartbeat", "stopped"}
                        /\ PreviousWatermark(log, c) = MarkOf(log, i)
  BY <1>0, PreviousIs
<1>2. i \in 1..Len(log) /\ MarkOf(log, i) \in 0..i /\ Cleared(log, MarkOf(log, i), i)
  BY <1>0, <1>1 DEF ClearedMark
<1> DEFINE m == MarkOf(log, i)
<1>3. m \in Nat /\ k <= m
  BY <1>1, <1>2
<1> HIDE DEF m
<1>4. NamelessIn(log, ControlTopics, k) \subseteq NamelessIn(log, ControlTopics, m)
  BY <1>3 DEF NamelessIn
<1>5. Cleared(log, m, i) /\ i \in Nat /\ i <= Len(log) /\ k \in Nat
  BY <1>0, <1>2 DEF m
<1> QED
  BY <1>0, <1>3, <1>4, <1>5, ClearedWithin

(* The nameless records up to the one just taken. *)
LEMMA TakenNameless ==
  ASSUME TypeInv, NEW w \in Workers, Passed(log, wk[w]),
         NEW j \in Undrained(wk[w]), IsNext(wk[w], j)
  PROVE  /\ NamelessIn(log, ControlTopics, j)
              \subseteq NamelessIn(log, ControlTopics, wk[w].mark) \cup {j}
         /\ log[j].rid # NoId =>
              NamelessIn(log, ControlTopics, j)
                \subseteq NamelessIn(log, ControlTopics, wk[w].mark)
<1> DEFINE v == wk[w]
<1>0. /\ Len(log) \in Nat /\ v.mark \in Nat /\ v.w \in 0..Len(log)
      /\ j \in 1..Len(log) /\ j <= v.w
  BY StateOf, UndrainedOnLog DEF Undrained, WorkerState
<1>1. ASSUME NEW k \in 1..j, IsControl(log[k]), k # j PROVE k <= v.mark
  <2>1. k \in 1..Len(log) /\ k <= v.w /\ ~(j <= k)
    BY <1>0, <1>1
  <2>2. k \notin Undrained(v)
    BY <2>1 DEF IsNext
  <2> QED
    BY <1>0, <1>1, <2>1, <2>2, NonePassed
<1> QED
  BY <1>0, <1>1 DEF NamelessIn, IsControl

LEMMA TakenCleared ==
  ASSUME TypeInv, LogStep, NEW w \in Workers, Takes(wk[w], wk'[w]),
         Passed(log, wk[w]), wk[w].folded, wk[w].claim \in 1..Len(log),
         Cleared(log, wk[w].mark, Len(log)),
         \A i \in 1..Len(log) : ClearedMark(i)
  PROVE  Cleared(log', wk'[w].mark, Len(log'))
<1> DEFINE v == wk[w]
           t == wk'[w]
<1> PICK j \in Undrained(v) : IsNext(v, j) /\ t.mark = j /\ Taken(v, t, j)
  BY DEF Takes
<1> DEFINE C(m) == NamelessIn(log, ControlTopics, m)
<1>0. /\ Len(log) \in Nat /\ Len(log') \in Nat /\ Len(log) <= Len(log')
      /\ v \in WorkerState /\ v.mark \in 0..Len(log) /\ j \in 1..Len(log)
      /\ v.spent \subseteq RequestIds
  BY StateOf, UndrainedOnLog, LogKept, SMTT(60) DEF Passed, WorkerState, Landed
<1>1. C(j) \subseteq C(v.mark) \cup {j} /\ (log[j].rid # NoId => C(j) \subseteq C(v.mark))
  BY TakenNameless
<1>2. SUFFICES Cleared(log', j, Len(log'))
  OBVIOUS
<1>3. Cleared(log, j, Len(log)) => Cleared(log', j, Len(log'))
  BY <1>0, ClearedKept
<1>4. CASE log[j].rid # NoId
  <2>1. /\ v.mark \in Nat /\ j \in Nat /\ Len(log) <= Len(log)
        /\ Cleared(log, v.mark, Len(log))
    BY <1>0
  <2> HIDE DEF v
  <2>2. Cleared(log, j, Len(log))
    BY <1>0, <1>1, <1>4, <2>1, ClearedWithin
  <2> QED
    BY <1>3, <2>2
<1>5. CASE log[j].rid = NoId
  <2>1. log[j].rid \notin RequestIds
    BY <1>5, IdAssumption
  <2>2. \/ Skipped(v, log[j], j)
        \/ Naks(NoId)
    BY <1>5, <2>1, SMTT(30) DEF Taken, TakesStop, TakesWithdraw, VoidLease, Accepted, Subscribes, Answerable
  <2>3. CASE Skipped(v, log[j], j)
    <3>1. j <= PreviousWatermark(log, v.claim - 1)
      BY <1>0, <2>1, <2>3 DEF Skipped, Answerable, NamelessAbove
    <3>2. v.claim - 1 \in 0..Len(log)
      BY <1>0
    <3> QED
      BY <1>0, <1>3, <3>1, <3>2, PreviousCleared
  <2>4. CASE Naks(NoId)
    <3> DEFINE n == [Blank EXCEPT !.topic = "nak", !.rid = NoId]
    <3>1. n \in Record
      BY AnswerType
    <3>2. Len(log') = Len(log) + 1 /\ log'[Len(log) + 1] = n
      BY <2>4, <3>1, Sent DEF Naks, TypeInv, TypeOK
    <3>3. n.topic = "nak" /\ n.rid = NoId
      BY DEF Blank
    <3>4. NamelessIn(log', ControlTopics, j)
            \subseteq NamelessIn(log', ControlTopics, v.mark) \cup {j}
      BY <1>0, <1>1, NamelessKept
    <3>5. Cleared(log', v.mark, Len(log))
      BY <1>0, ClearedKept
    <3>6. v.mark \in Nat /\ j \in Nat
      BY <1>0
    <3> HIDE DEF n, v
    <3>7. Cleared(log', j, Len(log) + 1)
      BY <1>0, <3>2, <3>3, <3>4, <3>5, <3>6, ClearedAfter
    <3> QED
      BY <3>2, <3>7
  <2> QED
    BY <2>2, <2>3, <2>4
<1> QED
  BY <1>4, <1>5

LEMMA StepKeepsCleared ==
  ASSUME RunInv, HeldInv, ClearedInv, [Next]_vars, NEW w \in Workers
  PROVE  ClearedTo(wk[w])'
<1> DEFINE v == wk[w]
           t == wk'[w]
<1> SUFFICES ASSUME t.up, t.folded PROVE Cleared(log', t.mark, Len(log'))
  BY DEF ClearedTo
<1>0. /\ TypeInv /\ WriterInv /\ ReportsInv /\ LogStep
      /\ HeldLine(log, v) /\ v.mark \in Nat
      /\ Len(log) \in Nat /\ Len(log') \in Nat /\ Len(log) <= Len(log')
  BY NextStep, StepGrows, StateOf, LogKept
  DEF RunInv, ClaimInv, HeldInv, WorkerState, Landed
<1>1. v.up /\ v.folded =>
        /\ v.claim \in 1..Len(log) /\ v.pc # "answers" /\ Passed(log, v)
        /\ v.mark \in 0..Len(log) /\ Cleared(log, v.mark, Len(log))
  BY <1>0, ClaimsGrow
  DEF WriterInv, HeldLine, Unclaimed, Bare, Passed, ClearedInv, ClearedTo
<1>2. CASE t.mark = v.mark /\ v.up /\ v.folded
  BY <1>0, <1>1, <1>2, ClearedKept
<1>3. CASE v.up /\ v.claim = 0 /\ Waits(v, t)
  BY <1>0, <1>3 DEF HeldLine, Unclaimed, Bare, Waits
<1>4. CASE v.up /\ v.claim # 0 /\ Moves(w)
  <2>1. CASE Folds(v, t)
    <3>1. t.mark = 0
      BY <1>0, <1>4, <2>1 DEF HeldLine, Unclaimed, Folds, Bare
    <3>2. NamelessIn(log', ControlTopics, 0) = {}
      BY DEF NamelessIn
    <3>3. Cardinality(NamelessIn(log', {"nak"}, Len(log'))) \in Nat
      BY <1>0, NamelessFinite
    <3>4. Cardinality(NamelessIn(log', ControlTopics, 0)) = 0
      BY <3>2, FS_EmptySet
    <3>5. Cleared(log', 0, Len(log'))
      BY <3>3, <3>4 DEF Cleared
    <3> QED
      BY <3>1, <3>5
  <2>2. CASE v.folded /\ Takes(v, t)
    BY <1>0, <1>1, <1>4, <2>2, TakenCleared DEF ClearedInv
  <2>3. CASE v.folded /\ t.mark = v.mark
    BY <1>2, <1>4, <2>3
  <2> QED
    BY <1>4, <2>1, <2>2, <2>3 DEF Moves, Modes, AsksMove, Keeps, Folds, Expires
<1>5. CASE t = v
  BY <1>2, <1>5
<1> QED
  BY <1>0, <1>3, <1>4, <1>5, StepAsks DEF HeldLine, Ended

(* A watermark is of a claim that folded, and is what its worker has read. *)
LEMMA NewClearedMark ==
  ASSUME RunInv, HeldInv, ClearedInv, Step, Landed,
         Newest.topic \in {"commit", "heartbeat", "stopped"}
  PROVE  ClearedMark(Len(log))'
<1>0. /\ TypeInv /\ WriterInv /\ LogStep /\ Len(log) \in Nat /\ Len(log') = Len(log) + 1
  BY StepGrows, LogKept DEF RunInv, ClaimInv, Landed
<1> DEFINE n == Len(log')
<1>1. /\ log'[n] = Newest /\ n \in Nat /\ n = Len(log) + 1
  BY <1>0 DEF Newest
<1>2. CASE IsMark(Newest)
  <2>1. PICK w \in Workers :
          /\ Ready(wk[w]) /\ wk[w].up
          /\ Newest.consumed = wk[w].mark /\ wk[w].mark \in 0..Len(log)
    BY <1>2, NewMark
  <2>2. Cleared(log, wk[w].mark, Len(log))
    BY <2>1 DEF ClearedInv, ClearedTo, Ready
  <2>3. Cleared(log', wk[w].mark, n)
    BY <1>0, <1>1, <2>1, <2>2, ClearedKept
  <2>4. MarkOf(log', n) = wk[w].mark
    BY <1>1, <1>2, <2>1 DEF MarkOf, IsMark
  <2> HIDE DEF n
  <2>5. MarkOf(log', n) \in 0..n /\ Cleared(log', MarkOf(log', n), n)
    BY <1>0, <1>1, <2>1, <2>3, <2>4
  <2> QED
    BY <2>5 DEF ClearedMark, n
<1>3. CASE Newest.topic = "stopped"
  <2>1. PICK w \in Workers :
          /\ wk[w].up /\ wk[w].pc = "take" /\ wk[w].w = Len(log)
          /\ Undrained(wk[w]) = {}
    BY <1>3, NewExit
  <2> DEFINE m == wk[w].mark
  <2>2. wk[w].folded
    BY <2>1 DEF ClearedInv, Busy, DrainPcs
  <2>3. /\ Cleared(log, m, Len(log)) /\ Passed(log, wk[w]) /\ m \in 0..Len(log)
        /\ m \in Nat
    BY <1>0, <2>1, <2>2, StateOf
    DEF ClearedInv, ClearedTo, HeldInv, HeldLine, Passed, WorkerState
  <2>4. Cleared(log', m, Len(log))
    BY <1>0, <2>3, ClearedKept
  <2>5. NamelessIn(log', ControlTopics, n) \subseteq NamelessIn(log', ControlTopics, m)
    <3> SUFFICES ASSUME NEW k \in 1..n, log'[k].topic \in ControlTopics
                 PROVE  k \in 1..m
      BY DEF NamelessIn
    <3>1. k # n
      BY <1>1, <1>3 DEF ControlTopics
    <3>2. k \in 1..Len(log) /\ log'[k] = log[k] /\ IsControl(log[k]) /\ k <= wk[w].w
      BY <1>0, <1>1, <2>1, <3>1, LogKept DEF IsControl
    <3>3. ~(m < k)
      BY <1>0, <2>1, <2>3, <3>2, NonePassed
    <3> QED
      BY <2>3, <3>2, <3>3
  <2>6. MarkOf(log', n) = n
    BY <1>1, <1>3 DEF MarkOf
  <2> HIDE DEF n, m
  <2>7. Cleared(log', n, n)
    <3>1. Len(log) <= n
      BY <1>0, <1>1
    <3> QED
      BY <1>0, <1>1, <2>3, <2>4, <2>5, <3>1, ClearedWithin
  <2>8. MarkOf(log', n) \in 0..n /\ Cleared(log', MarkOf(log', n), n)
    BY <1>1, <2>6, <2>7
  <2> QED
    BY <2>8 DEF ClearedMark, n
<1> QED
  BY <1>2, <1>3 DEF IsMark

LEMMA StepKeepsClearedMarks ==
  ASSUME RunInv, HeldInv, ClearedInv, Step, NEW i \in 1..Len(log')
  PROVE  ClearedMark(i)'
<1>0. /\ TypeInv /\ LogStep /\ Len(log) \in Nat /\ (UNCHANGED log \/ Landed)
      /\ \A k \in 1..Len(log) : log'[k] = log[k]
  BY StepGrows, LogKept DEF RunInv, ClaimInv
<1>1. CASE i \in 1..Len(log)
  <2>1. ClearedMark(i) /\ log'[i] = log[i]
    BY <1>0, <1>1 DEF ClearedInv
  <2>2. MarkOf(log', i) = MarkOf(log, i)
    BY <2>1 DEF MarkOf
  <2> DEFINE m == MarkOf(log, i)
  <2>3. ASSUME m \in 0..i, Cleared(log, m, i) PROVE Cleared(log', m, i)
    <3>1. m \in 0..Len(log) /\ i \in 0..Len(log)
      BY <1>0, <1>1, <2>3
    <3> HIDE DEF m
    <3> QED
      BY <1>0, <2>3, <3>1, ClearedKept
  <2> QED
    BY <2>1, <2>2, <2>3 DEF ClearedMark
<1>2. CASE i \notin 1..Len(log)
  <2>1. Landed /\ i = Len(log') /\ log'[i] = Newest
    BY <1>0, <1>2 DEF Landed, Newest
  <2>2. Newest.topic \in {"commit", "heartbeat", "stopped"} => ClearedMark(Len(log))'
    BY <2>1, NewClearedMark
  <2> QED
    BY <2>1, <2>2 DEF ClearedMark
<1> QED
  BY <1>1, <1>2

(* No claim's fold raised, so whoever works has folded. *)
LEMMA StepKeepsFolded ==
  ASSUME RunInv, HeldInv, ClearedInv, [Next]_vars, "fold" \notin Faults,
         NEW w \in Workers, wk'[w].up, wk'[w].pc \in Busy
  PROVE  wk'[w].folded
<1> DEFINE v == wk[w]
           t == wk'[w]
<1>0. /\ TypeInv /\ WriterInv /\ ReportsInv /\ HeldLine(log, v)
      /\ v.up /\ v.pc \in Busy => v.folded
  BY DEF RunInv, ClaimInv, HeldInv, ClearedInv
<1>1. CASE v.up /\ v.claim # 0 /\ Moves(w) /\ Busies(v, t)
  BY <1>0, <1>1 DEF Moves, Modes, Busies, Folds
<1>2. CASE v.up /\ v.claim = 0 /\ Waits(v, t)
  BY <1>2 DEF Waits, Busy
<1>3. CASE t = v
  BY <1>0, <1>3
<1> QED
  BY <1>0, <1>1, <1>2, <1>3, StepAsks DEF HeldLine, Ended

LEMMA ClearedHolds ==
  ASSUME "fold" \notin Faults
  PROVE  Spec => []ClearedInv
<1>1. Init => ClearedInv
  BY DEF Init, ClearedInv, ClearedTo, NewWorker, Busy, DrainPcs
<1>2. ASSUME RunInv, HeldInv, ClearedInv, [Next]_vars PROVE ClearedInv'
  <2>1. Step
    BY <1>2, NextStep DEF RunInv, ClaimInv
  <2>2. \A w \in Workers : ClearedTo(wk[w])'
    BY <1>2, StepKeepsCleared
  <2>3. \A i \in 1..Len(log') : ClearedMark(i)'
    BY <1>2, <2>1, StepKeepsClearedMarks
  <2>4. \A w \in Workers : wk'[w].up /\ wk'[w].pc \in Busy => wk'[w].folded
    BY <1>2, StepKeepsFolded
  <2> QED
    BY <2>2, <2>3, <2>4 DEF ClearedInv
<1> QED
  BY <1>1, <1>2, RunInvHolds, HeldHolds, PTL DEF Spec

(* No request falls between the last drain and the exit, nor is shielded   *)
(* by a watermark (worker.py, take): where no claim's fold raises, and no  *)
(* stop shares an id with a subscription, each named stop below an exit is *)
(* honored, withdrawn or refused at or below it, each nameless record has  *)
(* been refused, and a stop is honored by one exit.                        *)
THEOREM StopsAreAnswered ==
  ASSUME DistinctIds, "fold" \notin Faults
  PROVE  Spec => []StopsAnswered
<1>1. NamedInv /\ ClearedInv => StopsAnswered
  <2> SUFFICES ASSUME NamedInv, ClearedInv, NEW i \in 1..Len(log), FoldedExit(i)
               PROVE  /\ NamedAnswered(log, i)
                      /\ Cardinality(Nameless({"nak"}, i))
                           >= Cardinality(Nameless(ControlTopics, i))
    BY DEF StopsAnswered, NamedAnswered
  <2>1. NamedAnswered(log, i)
    BY DEF NamedInv
  <2>2. Cleared(log, i, i)
    BY DEF ClearedInv, ClearedMark, FoldedExit, MarkOf
  <2>3. \A T : Nameless(T, i) = NamelessIn(log, T, i)
    BY DEF Nameless, NamelessIn
  <2>4. /\ Cardinality(NamelessIn(log, {"nak"}, i)) \in Nat
        /\ Cardinality(NamelessIn(log, ControlTopics, i)) \in Nat
    BY NamelessFinite
  <2> QED
    BY <2>1, <2>2, <2>3, <2>4 DEF Cleared
<1> QED
  BY <1>1, NamedHold, ClearedHolds, PTL
=============================================================================
