------------------------ MODULE PolicyEngine_proofs ------------------------
(***************************************************************************)
(* The policy engine for any files, policies, callers and requests.        *)
(* Reloading: what a reload may change, when it is in effect, and that     *)
(* none comes from the watcher after Close.  Evaluating: the loop over the *)
(* sorted policies and rules decides what one installed set of policies    *)
(* says.                                                                   *)
(***************************************************************************)
EXTENDS PolicyEngine, FiniteSetTheorems, NaturalsInduction, WellFoundedInduction, TLAPS

Holdings == Policies \cup {Absent, Broken}
Readings == {<<>>} \cup UNION {[S -> Holdings] : S \in SUBSET DOMAIN Contents}
Reload == [pc : {"idle", "reading", "exited"}, todo : Seq(DOMAIN Contents), got : Readings,
           current : BOOLEAN, failed : BOOLEAN]

(* A reload has read the files it has not still to read. *)
Complete(r) == r.pc = "reading" => r.todo \in Seq(Files) /\ DOMAIN r.got \cup ToSet(r.todo) = Files

ReloadTypes ==
    /\ setup \in Setups /\ setup.walk \in Seq(DOMAIN Contents)
    /\ files \in [Files -> Holdings]
    /\ reload \in [Reloaders -> Reload]
    /\ \A w \in Reloaders : Complete(reload[w])
    /\ fresh \in BOOLEAN

(* Reading a file alone, what has been read parsed. *)
ReadsParsed == ~setup.dir => \A w \in Reloaders : reload[w].pc = "reading" =>
                  \A f \in DOMAIN reload[w].got : reload[w].got[f] \in Policies

(* A reload that began after the last edit has read the files as they are. *)
ReadsCurrent == \A w \in Reloaders : reload[w].pc = "reading" /\ reload[w].current =>
                  \A f \in DOMAIN reload[w].got : reload[w].got[f] = files[f]

(* With the watcher alone to reload, a reload from before the last edit is *)
(* over when one from after it has succeeded.                              *)
WatcherAlone ==
    setup.callers = {} =>
        /\ \A w \in Callers : reload[w].pc # "reading"
        /\ fresh => /\ policies = NormalizePolicyPriorities(Current)
                    /\ reload[Watcher].pc = "reading" => reload[Watcher].current

(* Close returns after the watcher has left. *)
WatcherGone == closing = "done" => reload[Watcher].pc = "exited"

ReloadInv == ReloadTypes /\ ReadsParsed /\ ReadsCurrent /\ WatcherAlone /\ WatcherGone

-----------------------------------------------------------------------------
(* Each setup has a walk over files that may hold policies. *)
LEMMA SetupWalks == \A s \in Setups : s.walk \in Seq(DOMAIN Contents)
  <1> SUFFICES ASSUME NEW s \in Setups
               PROVE  s.walk \in Seq(DOMAIN Contents)
    OBVIOUS
  <1> DEFINE t == [x \in DOMAIN s \ {"requests"} |-> s[x]]
  <1>1. t \in Setup
    BY EngineAssumptions DEF EngineAssumptions
  <1>2. t.walk \in Seq(DOMAIN Contents) /\ DOMAIN t = {"walk", "dir", "notifies", "callers", "modes", "edits", "calls"}
    BY <1>1 DEF Setup
  <1>3. "walk" \in DOMAIN s \ {"requests"}
    BY <1>2
  <1> QED
    BY <1>2, <1>3

(* A walk visits the files. *)
LEMMA WalkTypes ==
    ASSUME setup.walk \in Seq(DOMAIN Contents)
    PROVE  setup.walk \in Seq(Files) /\ ToSet(setup.walk) = Files
  BY DEF Files, ToSet

(* The files of a walk may hold policies. *)
LEMMA FilesExist ==
    ASSUME setup.walk \in Seq(DOMAIN Contents)
    PROVE  Files \subseteq DOMAIN Contents
  BY DEF Files, ToSet

(* The rest of a sequence has its type. *)
LEMMA TailType ==
    ASSUME NEW S, NEW t \in Seq(S), t # <<>>
    PROVE  Tail(t) \in Seq(S)
  OBVIOUS

(* Nothing is in the empty sequence. *)
LEMMA NothingInEmpty == ToSet(<<>>) = {}
  BY DEF ToSet

(* The reloads a reloader may start or end with. *)
LEMMA Constants ==
    ASSUME setup.walk \in Seq(DOMAIN Contents)
    PROVE  /\ Idle \in Reload /\ Idle.pc = "idle"
           /\ Exited \in Reload /\ Exited.pc = "exited"
           /\ ReloadFailed \in Reload /\ ReloadFailed.pc = "idle"
           /\ Reading \in Reload /\ Reading.pc = "reading" /\ Reading.todo = setup.walk
           /\ Reading.current /\ DOMAIN Reading.got = {}
  <1>1. DOMAIN <<>> = {} /\ <<>> \in Readings /\ <<>> \in Seq(DOMAIN Contents)
    BY DEF Readings
  <1>2. Idle \in Reload /\ Idle.pc = "idle" /\ Idle.got = <<>>
    BY <1>1 DEF Idle, Reload
  <1>3. Exited \in Reload /\ Exited.pc = "exited"
    BY <1>2 DEF Exited, Reload
  <1>4. ReloadFailed \in Reload /\ ReloadFailed.pc = "idle"
    BY <1>2 DEF ReloadFailed, Reload
  <1>5. /\ Reading \in Reload /\ Reading.pc = "reading" /\ Reading.todo = setup.walk
        /\ Reading.current /\ Reading.got = <<>>
    BY <1>2 DEF Reading, Reload
  <1> QED
    BY <1>1, <1>2, <1>3, <1>4, <1>5

(* The engine starts with the policies of the files. *)
LEMMA InitReload == Init => ReloadInv
  <1> SUFFICES ASSUME Init PROVE ReloadInv
    OBVIOUS
  <1>1. reload = [w \in Reloaders |-> Idle] /\ Idle \in Reload /\ Idle.pc = "idle"
    BY Constants, SetupWalks DEF Init
  <1>2. ReloadTypes
    BY <1>1, SetupWalks DEF Init, ReloadTypes, Complete, Holdings
  <1>3. Watcher \in Reloaders /\ Callers \subseteq Reloaders
    BY DEF Reloaders
  <1> QED
    BY <1>1, <1>2, <1>3 DEF Init, ReloadInv, ReadsParsed, ReadsCurrent, WatcherAlone, WatcherGone

(* One reloader moves on and nothing else changes. *)
LEMMA ReloaderMoves ==
    ASSUME ReloadInv, NEW w \in Reloaders, NEW r \in Reload,
           reload' = [reload EXCEPT ![w] = r], UNCHANGED <<setup, files, policies, closing>>,
           fresh' \in BOOLEAN, fresh' => fresh, Complete(r),
           ~setup.dir /\ r.pc = "reading" => \A f \in DOMAIN r.got : r.got[f] \in Policies,
           r.pc = "reading" /\ r.current => \A f \in DOMAIN r.got : r.got[f] = files[f],
           setup.callers = {} /\ r.pc = "reading" => w \notin Callers /\ (fresh' => r.current),
           reload[w].pc = "exited" => r.pc = "exited"
    PROVE  ReloadInv'
  <1>1. /\ reload \in [Reloaders -> Reload] /\ Files' = Files /\ Watcher \in Reloaders /\ Callers \subseteq Reloaders
        /\ Current' = Current /\ Watcher \notin Callers
    BY EngineAssumptions DEF EngineAssumptions, ReloadInv, ReloadTypes, Files, Reloaders, Current, Loaded
  <1>2. \A v \in Reloaders : reload'[v] = IF v = w THEN r ELSE reload[v]
    BY <1>1
  <1>3. ReloadTypes'
    <2>1. reload' \in [Reloaders -> Reload]
      BY <1>1
    <2>2. \A v \in Reloaders : Complete(reload[v])'
      BY <1>1, <1>2 DEF ReloadInv, ReloadTypes, Complete
    <2>3. Reload' = Reload /\ Reloaders' = Reloaders
      BY DEF Reload, Readings, Holdings, Policies, Reloaders
    <2> QED
      BY <1>1, <2>1, <2>2, <2>3 DEF ReloadInv, ReloadTypes, Holdings, Policies
  <1>4. ReadsParsed'
    BY <1>1, <1>2 DEF ReloadInv, ReadsParsed, Reloaders
  <1>5. ReadsCurrent'
    BY <1>1, <1>2 DEF ReloadInv, ReadsCurrent, Reloaders
  <1>6. WatcherAlone'
    BY <1>1, <1>2 DEF ReloadInv, WatcherAlone, NormalizePolicyPriorities
  <1>7. WatcherGone'
    BY <1>1, <1>2 DEF ReloadInv, WatcherGone
  <1> QED
    BY <1>3, <1>4, <1>5, <1>6, <1>7 DEF ReloadInv

(* What the invariant says of one reload. *)
LEMMA OneReload ==
    ASSUME ReloadInv, NEW w \in Reloaders
    PROVE  /\ setup.walk \in Seq(DOMAIN Contents) /\ files \in [Files -> Holdings] /\ reload \in [Reloaders -> Reload]
           /\ reload[w] \in Reload /\ Complete(reload[w])
  BY DEF ReloadInv, ReloadTypes

(* A reload begins with everything to read. *)
LEMMA BeginsToRead ==
    ASSUME ReloadInv, NEW w \in Reloaders, reload' = [reload EXCEPT ![w] = Reading],
           UNCHANGED <<setup, files, policies, closing, fresh>>,
           setup.callers = {} => w \notin Callers, reload[w].pc = "idle"
    PROVE  ReloadInv'
  <1>1. /\ Reading \in Reload /\ Reading.pc = "reading" /\ Reading.todo = setup.walk
        /\ Reading.current /\ DOMAIN Reading.got = {}
    BY OneReload, Constants
  <1>2. Complete(Reading)
    BY <1>1, WalkTypes, OneReload DEF Complete
  <1>3. fresh' \in BOOLEAN /\ (fresh' => fresh)
    BY DEF ReloadInv, ReloadTypes
  <1> QED
    BY <1>1, <1>2, <1>3, ReloaderMoves

(* The next reload when `content` is read from the next file. *)
TakenOK(w, content) ==
    LET o == reload[w]
        f == Head(o.todo)
        r == Taken(w, content)
    IN  /\ f \in Files /\ r \in Reload /\ r.pc = "reading" /\ r.current = o.current /\ Complete(r)
        /\ \A h \in DOMAIN r.got : (h = f /\ r.got[h] = content) \/ (h \in DOMAIN o.got /\ r.got[h] = o.got[h])

LEMMA TakesAFile ==
    ASSUME ReloadInv, NEW w \in Reloaders, reload[w].pc = "reading", reload[w].todo # <<>>,
           NEW content \in Holdings
    PROVE  TakenOK(w, content)
  <1> DEFINE o == reload[w]
             f == Head(o.todo)
             g == [h \in DOMAIN o.got \cup {f} |-> IF h = f THEN content ELSE o.got[h]]
             r == [o EXCEPT !.todo = Tail(o.todo), !.got = g]
  <1>1. /\ setup.walk \in Seq(DOMAIN Contents) /\ o \in Reload /\ Complete(o)
        /\ Files \subseteq DOMAIN Contents
    BY OneReload, FilesExist
  <1>2. o.pc = "reading" /\ o.todo # <<>>
    OBVIOUS
  <1>3. o.todo \in Seq(Files) /\ DOMAIN o.got \cup ToSet(o.todo) = Files /\ o.got \in Readings
    BY <1>1, <1>2 DEF Complete, Reload
  <1>4. f \in Files /\ Tail(o.todo) \in Seq(Files) /\ ToSet(o.todo) = {f} \cup ToSet(Tail(o.todo))
    <2>1. o.todo \in Seq(Files) /\ o.todo # <<>>
      BY <1>2, <1>3
    <2> DEFINE t == o.todo
    <2> HIDE DEF t
    <2>2. ASSUME t \in Seq(Files), t # <<>>
          PROVE  Head(t) \in Files /\ Tail(t) \in Seq(Files) /\ ToSet(t) = {Head(t)} \cup ToSet(Tail(t))
      <3>1. Head(t) \in Files /\ Tail(t) \in Seq(Files) /\ Head(t) = t[1] /\ Len(Tail(t)) = Len(t) - 1 /\ Len(t) \in Nat \ {0}
        BY <2>2
      <3>2. \A i \in 1..(Len(t) - 1) : Tail(t)[i] = t[i + 1]
        BY <2>2
      <3>3. DOMAIN t = 1..Len(t) /\ DOMAIN Tail(t) = 1..(Len(t) - 1)
        BY <2>2, <3>1
      <3>4. \A i \in 1..Len(t) : i = 1 \/ (i - 1 \in 1..(Len(t) - 1) /\ t[i] = Tail(t)[i - 1])
        BY <3>1, <3>2
      <3>5. \A i \in 1..(Len(t) - 1) : i + 1 \in 1..Len(t) /\ 1 \in 1..Len(t)
        BY <3>1
      <3>6. ToSet(t) \subseteq {Head(t)} \cup ToSet(Tail(t))
        <4> SUFFICES ASSUME NEW i \in 1..Len(t)
                     PROVE  t[i] = Head(t) \/ \E k \in 1..(Len(t) - 1) : Tail(t)[k] = t[i]
          BY <3>3 DEF ToSet
        <4> QED
          BY <3>1, <3>4
      <3>7. {Head(t)} \cup ToSet(Tail(t)) \subseteq ToSet(t)
        BY <3>1, <3>2, <3>3, <3>5 DEF ToSet
      <3> QED
        BY <3>1, <3>6, <3>7
    <2> QED
      BY <2>1, <2>2 DEF t
  <1>5. g \in Readings /\ DOMAIN g = DOMAIN o.got \cup {f}
    <2>1. DOMAIN o.got \subseteq DOMAIN Contents
      BY <1>1, <1>3
    <2>2. \A h \in DOMAIN o.got : o.got[h] \in Holdings
      BY <1>3 DEF Readings
    <2>3. g \in [DOMAIN o.got \cup {f} -> Holdings]
      BY <1>1, <1>4, <2>2
    <2>4. DOMAIN o.got \cup {f} \in SUBSET DOMAIN Contents
      BY <1>1, <1>4, <2>1
    <2> QED
      BY <2>3, <2>4 DEF Readings
  <1>6. \A h \in DOMAIN g : (h = f /\ g[h] = content) \/ (h \in DOMAIN o.got /\ g[h] = o.got[h])
    OBVIOUS
  <1>7. Taken(w, content) = r
    BY DEF Taken
  <1> HIDE DEF g
  <1>8. Tail(o.todo) \in Seq(DOMAIN Contents)
    <2>1. o.todo \in Seq(DOMAIN Contents) /\ o.todo # <<>>
      BY <1>1, <1>2 DEF Reload
    <2> QED
      BY <2>1, TailType
  <1>9. r \in Reload /\ r.pc = "reading" /\ r.todo = Tail(o.todo) /\ r.got = g /\ r.current = o.current
    BY <1>1, <1>2, <1>5, <1>8 DEF Reload
  <1> HIDE DEF r, f
  <1>10. Complete(r)
    BY <1>3, <1>4, <1>5, <1>9 DEF Complete
  <1> QED
    BY <1>4, <1>6, <1>7, <1>9, <1>10 DEF TakenOK, f

(* One file more is read, or the only one does not parse. *)
LEMMA ReadsAFile ==
    ASSUME ReloadInv, NEW w \in Reloaders, ReadFile(w)
    PROVE  ReloadInv'
  <1> DEFINE o == reload[w]
             f == Head(o.todo)
             r == Taken(w, files[f])
  <1>1. /\ setup.walk \in Seq(DOMAIN Contents) /\ files \in [Files -> Holdings] /\ o \in Reload /\ Complete(o)
        /\ fresh \in BOOLEAN
    BY OneReload DEF ReloadInv, ReloadTypes
  <1>2. o.pc = "reading" /\ o.todo # <<>> /\ UNCHANGED <<setup, files, policies, closing, fresh>>
    BY DEF ReadFile
  <1>3. files[f] \in Holdings
    BY <1>1, <1>2 DEF Complete
  <1>4. CASE LoadFails(files[f])
    <2>1. reload' = [reload EXCEPT ![w] = ReloadFailed]
      BY <1>4 DEF ReadFile
    <2>2. ReloadFailed \in Reload /\ ReloadFailed.pc = "idle" /\ Complete(ReloadFailed)
      BY <1>1, Constants DEF Complete
    <2> QED
      BY <1>1, <1>2, <2>1, <2>2, ReloaderMoves
  <1>5. CASE ~LoadFails(files[f])
    <2>1. reload' = [reload EXCEPT ![w] = r]
      BY <1>5 DEF ReadFile
    <2>2. /\ r \in Reload /\ r.pc = "reading" /\ r.current = o.current /\ Complete(r)
          /\ \A h \in DOMAIN r.got : (h = f /\ r.got[h] = files[f]) \/ (h \in DOMAIN o.got /\ r.got[h] = o.got[h])
      BY <1>2, <1>3, TakesAFile DEF TakenOK
    <2> HIDE DEF r, f
    <2>3. ~setup.dir => \A h \in DOMAIN r.got : r.got[h] \in Policies
      <3>1. ~setup.dir => files[f] \in Policies
        BY <1>5 DEF LoadFails
      <3>2. ~setup.dir => \A h \in DOMAIN o.got : o.got[h] \in Policies
        BY <1>2 DEF ReloadInv, ReadsParsed
      <3> QED
        BY <2>2, <3>1, <3>2
    <2>4. r.current => \A h \in DOMAIN r.got : r.got[h] = files[h]
      <3>1. o.current => \A h \in DOMAIN o.got : o.got[h] = files[h]
        BY <1>2 DEF ReloadInv, ReadsCurrent
      <3> QED
        BY <2>2, <3>1
    <2>5. setup.callers = {} => w \notin Callers /\ (fresh' => r.current)
      BY <1>2, <2>2 DEF ReloadInv, WatcherAlone, Reloaders
    <2> QED
      BY <1>1, <1>2, <2>1, <2>2, <2>3, <2>4, <2>5, ReloaderMoves
  <1> QED
    BY <1>4, <1>5

(* One file of a directory is skipped. *)
LEMMA SkipsAFile ==
    ASSUME ReloadInv, NEW w \in Reloaders, SkipFile(w)
    PROVE  ReloadInv'
  <1> DEFINE o == reload[w]
             no == FALSE
             yes == TRUE
             t == Taken(w, Broken)
             u == [t EXCEPT !.current = no]
             r == [u EXCEPT !.failed = yes]
  <1>1. o.pc = "reading" /\ o.todo # <<>> /\ setup.dir /\ UNCHANGED <<setup, files, policies, closing>> /\ fresh' = FALSE
    BY DEF SkipFile
  <1>2. reload' = [reload EXCEPT ![w] = r]
    BY DEF SkipFile
  <1>3. t \in Reload /\ t.pc = "reading" /\ Complete(t)
    BY <1>1, TakesAFile DEF TakenOK, Holdings
  <1>4. no \in BOOLEAN /\ yes \in BOOLEAN /\ ~no
    OBVIOUS
  <1> HIDE DEF t, no, yes
  <1>5. u \in Reload /\ u.pc = t.pc /\ u.todo = t.todo /\ u.got = t.got /\ u.current = no
    BY <1>3, <1>4 DEF Reload
  <1> HIDE DEF u
  <1>6. r \in Reload /\ r.pc = u.pc /\ r.todo = u.todo /\ r.got = u.got /\ r.current = u.current
    BY <1>4, <1>5 DEF Reload
  <1> HIDE DEF r
  <1>7. r.pc = "reading" /\ ~r.current /\ Complete(r)
    BY <1>3, <1>4, <1>5, <1>6 DEF Complete
  <1>8. setup.callers = {} => w \notin Callers
    BY <1>1 DEF ReloadInv, WatcherAlone
  <1>9. fresh' \in BOOLEAN /\ ~fresh'
    BY <1>1
  <1> QED
    BY <1>1, <1>2, <1>6, <1>7, <1>8, <1>9, ReloaderMoves

(* Installing what was read. *)
LEMMA Installs ==
    ASSUME ReloadInv, NEW w \in Reloaders, Install(w)
    PROVE  ReloadInv'
  <1> DEFINE o == reload[w]
  <1>1. /\ setup.walk \in Seq(DOMAIN Contents) /\ files \in [Files -> Holdings] /\ reload \in [Reloaders -> Reload]
        /\ o \in Reload /\ Complete(o) /\ Files' = Files /\ fresh \in BOOLEAN /\ setup \in Setups
    BY OneReload DEF ReloadInv, ReloadTypes, Install, Files
  <1>2. o.pc = "reading" /\ o.todo = <<>> /\ UNCHANGED <<setup, files, closing>>
    BY DEF Install
  <1>3. PICK r \in {Idle, ReloadFailed} : reload' = [reload EXCEPT ![w] = r]
    BY DEF Install
  <1>4. r \in Reload /\ r.pc = "idle"
    BY <1>1, <1>3, Constants
  <1>5. \A v \in Reloaders : reload'[v] = IF v = w THEN r ELSE reload[v]
    BY <1>1, <1>3
  <1>6. fresh' \in BOOLEAN
    BY <1>1 DEF Install, Reload
  <1>7. ReloadTypes'
    <2>1. reload' \in [Reloaders -> Reload]
      BY <1>1, <1>3, <1>4
    <2>2. \A v \in Reloaders : Complete(reload[v])'
      BY <1>1, <1>4, <1>5 DEF ReloadInv, ReloadTypes, Complete
    <2>3. Reload' = Reload /\ Reloaders' = Reloaders
      BY DEF Reload, Readings, Holdings, Policies, Reloaders
    <2> QED
      BY <1>1, <1>2, <1>6, <2>1, <2>2, <2>3 DEF ReloadTypes, Holdings, Policies
  <1>8. ReadsParsed' /\ ReadsCurrent'
    BY <1>2, <1>4, <1>5 DEF ReloadInv, ReadsParsed, ReadsCurrent, Reloaders
  <1>9. WatcherGone'
    BY <1>2, <1>4, <1>5 DEF ReloadInv, WatcherGone, Reloaders
  <1>10. WatcherAlone'
    <2> SUFFICES ASSUME setup.callers = {}
                 PROVE  /\ \A v \in Callers : reload'[v].pc # "reading"
                        /\ fresh' => /\ policies' = NormalizePolicyPriorities(Current)
                                     /\ reload'[Watcher].pc = "reading" => reload'[Watcher].current
      BY <1>1, <1>2 DEF WatcherAlone, Current, NormalizePolicyPriorities, Loaded
    <2>1. w = Watcher /\ \A v \in Callers : reload[v].pc # "reading"
      BY <1>2 DEF ReloadInv, WatcherAlone, Reloaders
    <2>2. \A v \in Callers : reload'[v].pc # "reading"
      BY <1>4, <1>5, <2>1 DEF Reloaders
    <2>3. reload'[Watcher].pc # "reading"
      BY <1>4, <1>5, <2>1
    <2>4. fresh => policies = NormalizePolicyPriorities(Current) /\ o.current
      BY <1>2, <2>1 DEF ReloadInv, WatcherAlone
    <2>5. o.current => Loaded(o.got) = Current
      <3>1. DOMAIN o.got = Files /\ DOMAIN files = Files
        BY <1>1, <1>2, NothingInEmpty DEF Complete
      <3>2. o.current => \A f \in Files : o.got[f] = files[f]
        BY <1>2, <3>1 DEF ReloadInv, ReadsCurrent
      <3> QED
        BY <3>1, <3>2 DEF Loaded, Current
    <2>6. CASE ValidPolicies(Loaded(o.got))
      <3>1. policies' = NormalizePolicyPriorities(Loaded(o.got)) /\ fresh' = (fresh \/ o.current)
        BY <2>6 DEF Install
      <3>2. fresh' => o.current
        BY <2>4, <3>1
      <3> QED
        BY <2>2, <2>3, <2>5, <3>1, <3>2
    <2>7. CASE ~ValidPolicies(Loaded(o.got))
      <3>1. policies' = policies /\ fresh' = fresh
        BY <2>7 DEF Install
      <3> QED
        BY <2>2, <2>3, <2>4, <3>1
    <2> QED
      BY <2>6, <2>7
  <1> QED
    BY <1>7, <1>8, <1>9, <1>10 DEF ReloadInv

(* An edit makes what was read stale. *)
LEMMA Edits ==
    ASSUME ReloadInv, NEW f \in Files, Edit(f)
    PROVE  ReloadInv'
  <1>1. /\ setup.walk \in Seq(DOMAIN Contents) /\ files \in [Files -> Holdings] /\ reload \in [Reloaders -> Reload]
        /\ Files' = Files /\ setup \in Setups /\ Files \subseteq DOMAIN Contents
    BY DEF ReloadInv, ReloadTypes, Edit, Files, ToSet
  <1>2. /\ reload' = [v \in Reloaders |-> [reload[v] EXCEPT !.current = FALSE]]
        /\ fresh' = FALSE /\ UNCHANGED <<setup, policies, closing>>
    BY DEF Edit
  <1>3. files' \in [Files -> Holdings]
    <2>1. PICK c \in MayHold(f) : files' = [files EXCEPT ![f] = c]
      BY DEF Edit
    <2>2. c \in Holdings
      BY <1>1, <2>1 DEF MayHold, Holdings, Policies
    <2> QED
      BY <1>1, <2>1, <2>2
  <1>4. \A v \in Reloaders : /\ reload'[v] \in Reload /\ reload'[v].current = FALSE /\ reload'[v].pc = reload[v].pc
                             /\ reload'[v].todo = reload[v].todo /\ reload'[v].got = reload[v].got
    <2> SUFFICES ASSUME NEW v \in Reloaders
                 PROVE  /\ reload'[v] \in Reload /\ reload'[v].current = FALSE /\ reload'[v].pc = reload[v].pc
                        /\ reload'[v].todo = reload[v].todo /\ reload'[v].got = reload[v].got
      OBVIOUS
    <2>1. reload[v] \in Reload /\ reload'[v] = [reload[v] EXCEPT !.current = FALSE]
      BY <1>1, <1>2
    <2> QED
      BY <2>1 DEF Reload
  <1>5. ReloadTypes'
    <2>1. reload' \in [Reloaders -> Reload]
      BY <1>2, <1>4
    <2>2. \A v \in Reloaders : Complete(reload[v])'
      BY <1>1, <1>4 DEF ReloadInv, ReloadTypes, Complete
    <2>3. Reload' = Reload /\ Reloaders' = Reloaders
      BY DEF Reload, Readings, Holdings, Policies, Reloaders
    <2> QED
      BY <1>1, <1>2, <1>3, <2>1, <2>2, <2>3 DEF ReloadTypes, Holdings, Policies
  <1>6. ReadsParsed'
    BY <1>2, <1>4 DEF ReloadInv, ReadsParsed, Reloaders
  <1>7. ReadsCurrent'
    BY <1>4 DEF ReadsCurrent, Reloaders
  <1>8. WatcherAlone'
    BY <1>2, <1>4 DEF ReloadInv, WatcherAlone, Reloaders
  <1>9. WatcherGone'
    BY <1>2, <1>4 DEF ReloadInv, WatcherGone, Reloaders
  <1> QED
    BY <1>5, <1>6, <1>7, <1>8, <1>9 DEF ReloadInv

(* Steps that do not touch a reload. *)
LEMMA OtherSteps ==
    ASSUME ReloadInv, UNCHANGED <<setup, files, policies, reload, fresh>>, closing' = "done" => closing = "done" \/ reload[Watcher].pc = "exited"
    PROVE  ReloadInv'
  <1>1. Files' = Files
    BY DEF Files
  <1> QED
    BY <1>1 DEF ReloadInv, ReloadTypes, ReadsParsed, ReadsCurrent, WatcherAlone, WatcherGone, Complete, Holdings, Policies,
                Reload, Readings, Reloaders, Current, Loaded, NormalizePolicyPriorities

(* Every step keeps the invariant. *)
LEMMA StepReload ==
    ASSUME ReloadInv, [Next]_vars
    PROVE  ReloadInv'
  <1>1. Watcher \in Reloaders /\ Watcher \notin Callers
    BY EngineAssumptions DEF EngineAssumptions, Reloaders
  <1>2. CASE EvalNext
    BY <1>2, OtherSteps DEF EvalNext, Evaluate, NextPolicy, evaluateRule, EndPolicy, Timeout, Return
  <1>3. ASSUME NEW w \in Reloaders, CallReload(w)
        PROVE  ReloadInv'
    BY <1>3, BeginsToRead DEF CallReload
  <1>4. ASSUME NEW w \in Reloaders, LoadError(w)
        PROVE  ReloadInv'
    <2>1. ReloadFailed \in Reload /\ ReloadFailed.pc = "idle" /\ Complete(ReloadFailed)
      BY OneReload, Constants DEF Complete
    <2> QED
      BY <1>4, <2>1, ReloaderMoves DEF LoadError, ReloadInv, ReloadTypes
  <1>5. CASE HandleEvent
    BY <1>1, <1>5, BeginsToRead DEF HandleEvent
  <1>6. CASE WatcherExit
    <2>1. Exited \in Reload /\ Exited.pc = "exited" /\ Complete(Exited)
      BY <1>1, OneReload, Constants DEF Complete
    <2> QED
      BY <1>1, <1>6, <2>1, ReloaderMoves DEF WatcherExit, ReloadInv, ReloadTypes
  <1>7. CASE Close
    BY <1>7, OtherSteps DEF Close
  <1>8. CASE CloseReturn
    BY <1>8, OtherSteps DEF CloseReturn
  <1>9. CASE UNCHANGED vars
    BY <1>9, OtherSteps DEF vars
  <1> QED
    BY <1>2, <1>3, <1>4, <1>5, <1>6, <1>7, <1>8, <1>9, ReadsAFile, SkipsAFile, Installs, Edits DEF Next, ReloadNext

(* The invariant holds. *)
THEOREM ReloadInvariance == Spec => []ReloadInv
  BY InitReload, StepReload, PTL DEF Spec

(* The watcher goroutine is gone when Close returns: the policies change   *)
(* afterwards only when a caller of ReloadPolicies installs some.          *)
THEOREM ClosedIsQuiet == Spec => QuietAfterClose
  <1>1. ASSUME ReloadInv, [Next]_vars
        PROVE  [closing = "done" => (policies' = policies \/ \E w \in Callers : Install(w))]_vars
    <2>1. ASSUME NEW w \in Reloaders, Install(w), closing = "done"
          PROVE  w \in Callers
      BY <1>1, <2>1, SMTT(60) DEF ReloadInv, WatcherGone, Install, Reloaders
    <2>2. policies' = policies \/ \E w \in Reloaders : Install(w)
      BY <1>1 DEF Next, EvalNext, Evaluate, NextPolicy, evaluateRule, EndPolicy, Timeout, Return, ReloadNext, CallReload,
                  ReadFile, SkipFile, LoadError, HandleEvent, WatcherExit, Close, CloseReturn, Edit, vars
    <2> QED
      BY <2>1, <2>2
  <1> QED
    BY <1>1, ReloadInvariance, PTL DEF Spec, QuietAfterClose

(* With the watcher alone to reload, a reload that began after the last    *)
(* edit and succeeded is in effect: the safety half of ChangeIsServed.     *)
THEOREM ReloadIsEffective == Spec => []ReloadTakesEffect
  <1>1. ReloadInv => ReloadTakesEffect
    BY DEF ReloadInv, WatcherAlone, ReloadTakesEffect
  <1> QED
    BY <1>1, ReloadInvariance, PTL

-----------------------------------------------------------------------------
(* Sorting: the elements of a set in the order of a relation. *)

(* Induction on the natural numbers, for a set of them. *)
LEMMA NatInduct ==
    ASSUME NEW T \in SUBSET Nat, 0 \in T, \A n \in T : n + 1 \in T
    PROVE  T = Nat
  <1> DEFINE Bad == Nat \ T
  <1>1. SUFFICES ASSUME Bad # {} PROVE FALSE
    OBVIOUS
  <1>2. PICK x \in Bad : \A y \in Bad : ~(<<y, x>> \in OpToRel(<, Nat))
    BY <1>1, NatLessThanWellFounded, WFMin
  <1>3. \A y \in Bad : ~(y < x)
    BY <1>2 DEF OpToRel
  <1>4. x # 0 /\ x - 1 \in Nat /\ x - 1 \notin Bad
    BY <1>3
  <1> QED
    BY <1>4

(* Sorting *)

(* A relation that puts any two elements of a set in one order. *)
Orders(R, S) ==
    /\ \A x, y \in S : <<x, y>> \in R => <<y, x>> \notin R
    /\ \A x, y \in S : x # y => <<x, y>> \in R \/ <<y, x>> \in R
    /\ \A x, y, z \in S : <<x, y>> \in R /\ <<y, z>> \in R => <<x, z>> \in R

(* The elements before one of them. *)
Below(x, S, R) == {y \in S : <<y, x>> \in R}

(* There are fewer of them than elements, and fewer than before a later one. *)
LEMMA RankGrows ==
    ASSUME NEW S, IsFiniteSet(S), NEW R, Orders(R, S), NEW x \in S
    PROVE  /\ Cardinality(S) \in Nat /\ Cardinality(Below(x, S, R)) \in 0..Cardinality(S) - 1
           /\ \A y \in S : <<x, y>> \in R => Cardinality(Below(x, S, R)) < Cardinality(Below(y, S, R))
  <1>1. x \notin Below(x, S, R) /\ Below(x, S, R) \in SUBSET S
    BY DEF Below, Orders
  <1> DEFINE B == Below(x, S, R)
  <1> HIDE DEF B
  <1>2. IsFiniteSet(B) /\ Cardinality(B) \in Nat /\ Cardinality(S) \in Nat
    BY <1>1, FS_Subset, FS_CardinalityType DEF B
  <1>3. IsFiniteSet(B \cup {x}) /\ Cardinality(B \cup {x}) = Cardinality(B) + 1
    BY <1>1, <1>2, FS_AddElement DEF B
  <1>4. Cardinality(B \cup {x}) <= Cardinality(S)
    <2>1. B \cup {x} \in SUBSET S
      BY <1>1 DEF B
    <2> QED
      BY <2>1, FS_Subset
  <1>5. ASSUME NEW y \in S, <<x, y>> \in R
        PROVE  Cardinality(B) < Cardinality(Below(y, S, R))
    <2> DEFINE C == Below(y, S, R)
    <2>1. C \in SUBSET S /\ B \cup {x} \in SUBSET C
      BY <1>5 DEF B, Below, Orders
    <2> HIDE DEF C
    <2>2. IsFiniteSet(C) /\ Cardinality(C) \in Nat
      BY <2>1, FS_Subset, FS_CardinalityType
    <2>3. Cardinality(B \cup {x}) <= Cardinality(C)
      BY <2>1, <2>2, FS_Subset
    <2>4. Cardinality(B) < Cardinality(C)
      BY <1>2, <1>3, <2>2, <2>3
    <2> QED
      BY <2>4 DEF C
  <1> QED
    BY <1>2, <1>3, <1>4, <1>5 DEF B

(* InOrder lists the elements as the relation orders them. *)
LEMMA InOrderSorts ==
    ASSUME NEW S, IsFiniteSet(S), NEW R, Orders(R, S)
    PROVE  /\ Cardinality(S) \in Nat /\ InOrder(S, R) \in [1..Cardinality(S) -> S]
           /\ ToSet(InOrder(S, R)) = S
           /\ \A i, j \in 1..Cardinality(S) : i < j => <<InOrder(S, R)[i], InOrder(S, R)[j]>> \in R
  <1> DEFINE n == Cardinality(S)
             rank == [x \in S |-> Cardinality(Below(x, S, R))]
             f == InOrder(S, R)
  <1>1. n \in Nat
    BY FS_CardinalityType
  <1>2. rank \in [S -> 0..n - 1]
    BY RankGrows
  <1>3. \A x, y \in S : <<x, y>> \in R => rank[x] < rank[y]
    BY RankGrows
  <1> HIDE DEF rank
  <1>4. \A x, y \in S : rank[x] = rank[y] => x = y
    <2>1. \A x \in S : rank[x] \in Nat
      BY <1>1, <1>2
    <2>2. ASSUME NEW x \in S, NEW y \in S, rank[x] = rank[y], x # y PROVE FALSE
      <3>1. <<x, y>> \in R \/ <<y, x>> \in R
        BY <2>2 DEF Orders
      <3>2. rank[x] < rank[y] \/ rank[y] < rank[x]
        BY <1>3, <3>1
      <3> QED
        BY <2>1, <2>2, <3>2
    <2> QED
      BY <2>2
  <1>5. rank \in Surjection(S, 0..n - 1)
    <2>1. IsFiniteSet(0..n - 1) /\ Cardinality(0..n - 1) = n
      BY <1>1, FS_Interval, SMTT(60)
    <2>2. rank \in Injection(S, 0..n - 1)
      BY <1>2, <1>4 DEF Injection, IsInjective
    <2> QED
      BY <2>1, <2>2, FS_Injection
  <1>6. ASSUME NEW k \in 1..n PROVE f[k] \in S /\ rank[f[k]] = k - 1
    <2>1. \E x \in S : rank[x] = k - 1
      BY <1>1, <1>5 DEF Surjection
    <2>2. \E x \in S : Cardinality({y \in S : <<y, x>> \in R}) = k - 1
      BY <2>1 DEF rank, Below
    <2>3. f[k] = CHOOSE x \in S : Cardinality({y \in S : <<y, x>> \in R}) = k - 1
      BY DEF InOrder
    <2>4. f[k] \in S /\ Cardinality({y \in S : <<y, f[k]>> \in R}) = k - 1
      BY <2>2, <2>3
    <2> QED
      BY <2>4 DEF rank, Below
  <1>7. f \in [1..n -> S] /\ DOMAIN f = 1..n
    <2>1. DOMAIN f = 1..n /\ f = [k \in 1..n |-> f[k]]
      <3> DEFINE At(k) == CHOOSE x \in S : Cardinality({y \in S : <<y, x>> \in R}) = k - 1
      <3>1. f = [k \in 1..n |-> At(k)]
        BY DEF InOrder
      <3> HIDE DEF f, n, At
      <3> QED
        BY <3>1
    <2> HIDE DEF f, n
    <2> QED
      BY <1>6, <2>1
  <1> HIDE DEF f, n
  <1>8. ToSet(f) = S
    <2>1. ASSUME NEW x \in S PROVE x \in ToSet(f)
      <3>1. rank[x] + 1 \in 1..n /\ (rank[x] + 1) - 1 = rank[x]
        BY <1>1, <1>2
      <3>2. f[rank[x] + 1] = x
        BY <1>4, <1>6, <3>1
      <3> QED
        BY <1>7, <3>1, <3>2 DEF ToSet
    <2>2. \A x \in ToSet(f) : x \in S
      BY <1>7 DEF ToSet
    <2> QED
      BY <2>1, <2>2
  <1>9. ASSUME NEW i \in 1..n, NEW j \in 1..n, i < j PROVE <<f[i], f[j]>> \in R
    <2>1. f[i] \in S /\ f[j] \in S /\ rank[f[i]] < rank[f[j]]
      BY <1>1, <1>6, <1>9
    <2>2. rank[f[i]] \in Nat /\ rank[f[j]] \in Nat
      BY <1>1, <1>2, <2>1
    <2>3. ~(<<f[j], f[i]>> \in R)
      BY <1>3, <2>1, <2>2
    <2>4. f[i] # f[j]
      BY <2>1, <2>2
    <2> QED
      BY <2>1, <2>3, <2>4 DEF Orders
  <1> QED
    BY <1>1, <1>7, <1>8, <1>9 DEF f, n

-----------------------------------------------------------------------------
(* The installed policies are a sorted list of policies with sorted rules. *)

(* A function on 1..n is a sequence, of length n. *)
LEMMA FunctionIsSeq ==
    ASSUME NEW S, NEW n \in Nat, NEW s \in [1..n -> S]
    PROVE  IsSeq(s) /\ Len(s) = n /\ DOMAIN s = 1..n
  <1>1. DOMAIN s = 1..n /\ s \in [1..n -> ToSet(s)]
    BY DEF ToSet
  <1> DEFINE E == ToSet(s)
  <1> HIDE DEF E
  <1>2. s \in [1..n -> E]
    BY <1>1 DEF E
  <1>3. s \in Seq(E) /\ Len(s) = n
    BY <1>2
  <1> QED
    BY <1>1, <1>3 DEF IsSeq, E

(* What is a sequence. *)
LEMMA SeqFacts ==
    ASSUME NEW s, IsSeq(s)
    PROVE  /\ Len(s) \in Nat /\ DOMAIN s = 1..Len(s) /\ s \in [1..Len(s) -> ToSet(s)]
           /\ s = <<>> <=> Len(s) = 0
           /\ s = <<>> <=> ToSet(s) = {}
  <1> DEFINE E == ToSet(s)
  <1>1. s \in Seq(E)
    BY DEF IsSeq
  <1> HIDE DEF E
  <1>2. Len(s) \in Nat /\ DOMAIN s = 1..Len(s) /\ s \in [1..Len(s) -> E] /\ (s = <<>> <=> Len(s) = 0)
    BY <1>1
  <1>3. Len(s) = 0 <=> ToSet(s) = {}
    <2>1. CASE Len(s) = 0
      <3>1. DOMAIN s = {}
        BY <1>2, <2>1
      <3> QED
        BY <2>1, <3>1 DEF ToSet
    <2>2. CASE Len(s) # 0
      <3>1. 1 \in DOMAIN s
        BY <1>2, <2>2
      <3>2. s[1] \in ToSet(s)
        BY <3>1 DEF ToSet
      <3> QED
        BY <2>2, <3>2
    <2> QED
      BY <2>1, <2>2
  <1> QED
    BY <1>2, <1>3 DEF E

(* Rules and policies in the order of their priorities. *)
RulesSorted(s) == \A i, j \in DOMAIN s : i < j => RuleBefore(s[i], s[j])
PoliciesSorted(s) == \A i, j \in DOMAIN s : i < j => PolicyBefore(s[i], s[j])

(* What evaluation relies on: a rule, a policy with its rules sorted, and  *)
(* a sorted list of policies.                                              *)
RuleOK(r) == r.name \in Nat /\ GetRulePriority(r) \in Nat /\ IsSeq(r.actions)
PolicyOK(p) ==
    /\ p.name \in Nat /\ GetPolicyPriority(p) \in Nat
    /\ IsSeq(p.rules) /\ RulesSorted(p.rules) /\ \A r \in ToSet(p.rules) : RuleOK(r)
ListOK(ps) == IsSeq(ps) /\ PoliciesSorted(ps) /\ \A p \in ToSet(ps) : PolicyOK(p)

(* Priorities are numbers. *)
LEMMA PrioritiesAreNumbers ==
    /\ \A r : r.priority \in Nat => GetRulePriority(r) \in Nat
    /\ \A p : p.tag \in Nat => GetPolicyPriority(p) \in Nat
  BY DEF GetRulePriority, GetPolicyPriority, ByActions, High, Medium, Low

(* Rules with different names are ordered, *)
LEMMA RulesOrdered ==
    ASSUME NEW S, \A r \in S : RuleOK(r), \A r, s \in S : r.name = s.name => r = s
    PROVE  Orders({x \in S \X S : RuleBefore(x[1], x[2])}, S)
  <1> DEFINE R == {x \in S \X S : RuleBefore(x[1], x[2])}
  <1>1. \A r, s \in S : <<r, s>> \in R <=> RuleBefore(r, s)
    OBVIOUS
  <1> HIDE DEF R
  <1>2. \A r \in S : GetRulePriority(r) \in Nat /\ r.name \in Nat
    BY DEF RuleOK
  <1>3. \A r, s \in S : RuleBefore(r, s) => ~RuleBefore(s, r)
    BY <1>2 DEF RuleBefore
  <1>4. \A r, s \in S : r # s => RuleBefore(r, s) \/ RuleBefore(s, r)
    BY <1>2 DEF RuleBefore
  <1>5. \A r, s, t \in S : RuleBefore(r, s) /\ RuleBefore(s, t) => RuleBefore(r, t)
    BY <1>2 DEF RuleBefore
  <1>6. Orders(R, S)
    BY <1>1, <1>3, <1>4, <1>5 DEF Orders
  <1> QED
    BY <1>6 DEF R

(* and so are policies. *)
LEMMA PoliciesOrdered ==
    ASSUME NEW S, \A p \in S : PolicyOK(p), \A p, q \in S : p.name = q.name => p = q
    PROVE  Orders({x \in S \X S : PolicyBefore(x[1], x[2])}, S)
  <1> DEFINE R == {x \in S \X S : PolicyBefore(x[1], x[2])}
  <1>1. \A r, s \in S : <<r, s>> \in R <=> PolicyBefore(r, s)
    OBVIOUS
  <1> HIDE DEF R
  <1>2. \A r \in S : GetPolicyPriority(r) \in Nat /\ r.name \in Nat
    BY DEF PolicyOK
  <1>3. \A r, s \in S : PolicyBefore(r, s) => ~PolicyBefore(s, r)
    BY <1>2 DEF PolicyBefore
  <1>4. \A r, s \in S : r # s => PolicyBefore(r, s) \/ PolicyBefore(s, r)
    BY <1>2 DEF PolicyBefore
  <1>5. \A r, s, t \in S : PolicyBefore(r, s) /\ PolicyBefore(s, t) => PolicyBefore(r, t)
    BY <1>2 DEF PolicyBefore
  <1>6. Orders(R, S)
    BY <1>1, <1>3, <1>4, <1>5 DEF Orders
  <1> QED
    BY <1>6 DEF R

(* The elements of a sequence are finitely many. *)
LEMMA SeqIsFinite ==
    ASSUME NEW s, IsSeq(s)
    PROVE  IsFiniteSet(ToSet(s))
  <1>1. Len(s) \in Nat /\ DOMAIN s = 1..Len(s) /\ s \in [1..Len(s) -> ToSet(s)]
    BY SeqFacts
  <1>2. s \in Surjection(1..Len(s), ToSet(s))
    BY <1>1 DEF Surjection, ToSet
  <1>3. IsFiniteSet(1..Len(s))
    BY <1>1, FS_Interval
  <1> QED
    BY <1>2, <1>3, FS_Surjection

(* SortRulesByPriority sorts the rules of a policy. *)
LEMMA RulesAreSorted ==
    ASSUME NEW p \in Policies
    PROVE  /\ IsSeq(SortRulesByPriority(p.rules)) /\ ToSet(SortRulesByPriority(p.rules)) = ToSet(p.rules)
           /\ RulesSorted(SortRulesByPriority(p.rules)) /\ \A r \in ToSet(p.rules) : RuleOK(r)
  <1> DEFINE S == ToSet(p.rules)
             R == {x \in S \X S : RuleBefore(x[1], x[2])}
             s == InOrder(S, R)
  <1>1. IsSeq(p.rules) /\ \A r \in S : r.name \in Nat /\ r.priority \in Nat /\ IsSeq(r.actions)
    BY PolicyAssumptions DEF PolicyAssumptions
  <1>2. \A r, t \in S : r.name = t.name => r = t
    BY PolicyAssumptions DEF PolicyAssumptions
  <1>3. IsFiniteSet(S)
    BY <1>1, SeqIsFinite
  <1>4. \A r \in S : RuleOK(r)
    BY <1>1, PrioritiesAreNumbers DEF RuleOK
  <1>5. SortRulesByPriority(p.rules) = s
    BY DEF SortRulesByPriority
  <1>6. \A x, y : <<x, y>> \in R => RuleBefore(x, y)
    OBVIOUS
  <1> HIDE DEF S
  <1>7. Orders(R, S)
    BY <1>2, <1>4, RulesOrdered
  <1> HIDE DEF R
  <1>8. /\ Cardinality(S) \in Nat /\ s \in [1..Cardinality(S) -> S] /\ ToSet(s) = S
        /\ \A i, j \in 1..Cardinality(S) : i < j => <<s[i], s[j]>> \in R
    BY <1>3, <1>7, InOrderSorts
  <1> HIDE DEF s
  <1>9. IsSeq(s) /\ DOMAIN s = 1..Cardinality(S)
    BY <1>8, FunctionIsSeq
  <1>10. RulesSorted(s)
    BY <1>6, <1>8, <1>9 DEF RulesSorted
  <1> QED
    BY <1>4, <1>5, <1>8, <1>9, <1>10 DEF S

(* A policy with its rules sorted. *)
Sorted(p) == [p EXCEPT !.rules = SortRulesByPriority(@)]

(* NormalizePolicyPriorities makes a sorted list of policies that are      *)
(* named apart.                                                            *)
LEMMA NormalizedIsOK ==
    ASSUME NEW ps, IsFiniteSet(ps), ps \subseteq Policies, \A p, q \in ps : p.name = q.name => p = q
    PROVE  ListOK(NormalizePolicyPriorities(ps)) /\ ToSet(NormalizePolicyPriorities(ps)) = {Sorted(p) : p \in ps}
  <1> DEFINE n == [p \in ps |-> [p EXCEPT !.rules = SortRulesByPriority(@)]]
             S == {[p EXCEPT !.rules = SortRulesByPriority(@)] : p \in ps}
             R == {x \in S \X S : PolicyBefore(x[1], x[2])}
             s == InOrder(S, R)
  <1>1. ASSUME NEW p \in ps PROVE /\ n[p].name = p.name /\ n[p].tag = p.tag /\ n[p].rules = SortRulesByPriority(p.rules)
                                  /\ p.name \in Nat /\ p.tag \in Nat
    BY PolicyAssumptions DEF PolicyAssumptions
  <1>2. n \in Surjection(ps, S)
    BY DEF Surjection
  <1>3. IsFiniteSet(S)
    BY <1>2, FS_Surjection
  <1>4. \A t \in S : \E p \in ps : t = n[p]
    OBVIOUS
  <1>5. NormalizePolicyPriorities(ps) = s
    BY DEF NormalizePolicyPriorities
  <1>6. \A x, y : <<x, y>> \in R => PolicyBefore(x, y)
    OBVIOUS
  <1>13. S = {Sorted(p) : p \in ps}
    BY DEF Sorted
  <1> HIDE DEF n, S
  <1>7. \A t \in S : PolicyOK(t)
    BY <1>1, <1>4, RulesAreSorted, PrioritiesAreNumbers DEF PolicyOK
  <1>8. \A t, u \in S : t.name = u.name => t = u
    BY <1>1, <1>4
  <1>9. Orders(R, S)
    BY <1>7, <1>8, PoliciesOrdered
  <1> HIDE DEF R
  <1>10. /\ Cardinality(S) \in Nat /\ s \in [1..Cardinality(S) -> S] /\ ToSet(s) = S
         /\ \A i, j \in 1..Cardinality(S) : i < j => <<s[i], s[j]>> \in R
    BY <1>3, <1>9, InOrderSorts
  <1> HIDE DEF s
  <1>11. IsSeq(s) /\ DOMAIN s = 1..Cardinality(S)
    BY <1>10, FunctionIsSeq
  <1>12. PoliciesSorted(s)
    BY <1>6, <1>10, <1>11 DEF PoliciesSorted
  <1> QED
    BY <1>5, <1>7, <1>10, <1>11, <1>12, <1>13 DEF ListOK

(* EnabledRules takes the enabled rules of a policy, in their order. *)
LEMMA EnabledAreSorted ==
    ASSUME NEW p, PolicyOK(p)
    PROVE  /\ IsSeq(EnabledRules(p)) /\ RulesSorted(EnabledRules(p))
           /\ ToSet(EnabledRules(p)) = {r \in ToSet(p.rules) : r.enabled}
  <1> DEFINE on == {i \in DOMAIN p.rules : p.rules[i].enabled}
             R == {x \in on \X on : x[1] < x[2]}
             at == InOrder(on, R)
             n == Cardinality(on)
             s == [k \in 1..n |-> p.rules[at[k]]]
  <1>1. EnabledRules(p) = s
    BY DEF EnabledRules
  <1>2. Len(p.rules) \in Nat /\ DOMAIN p.rules = 1..Len(p.rules)
    BY SeqFacts DEF PolicyOK
  <1>3. IsFiniteSet(on) /\ on \subseteq Nat
    <2>1. IsFiniteSet(1..Len(p.rules)) /\ on \in SUBSET (1..Len(p.rules))
      BY <1>2, FS_Interval
    <2> QED
      BY <1>2, <2>1, FS_Subset
  <1>4. Orders(R, on)
    <2>1. \A i, j \in on : <<i, j>> \in R <=> i < j
      OBVIOUS
    <2> HIDE DEF R, on
    <2> QED
      BY <1>3, <2>1 DEF Orders
  <1>5. \A i \in on : i \in DOMAIN p.rules /\ p.rules[i].enabled
    OBVIOUS
  <1>6. \A x, y : <<x, y>> \in R => x < y
    OBVIOUS
  <1>7. {r \in ToSet(p.rules) : r.enabled} = {p.rules[i] : i \in on}
    BY DEF ToSet
  <1> HIDE DEF on
  <1>8. n \in Nat /\ at \in [1..n -> on] /\ ToSet(at) = on /\ \A i, j \in 1..n : i < j => <<at[i], at[j]>> \in R
    <2> HIDE DEF R
    <2> QED
      BY <1>3, <1>4, InOrderSorts
  <1>9. \A i, j \in 1..n : i < j => at[i] < at[j]
    BY <1>6, <1>8
  <1> HIDE DEF R, at, n
  <1>10. DOMAIN s = 1..n /\ \A k \in 1..n : s[k] = p.rules[at[k]] /\ at[k] \in on
    BY <1>8
  <1>11. s \in [1..n -> {p.rules[i] : i \in on}]
    BY <1>8
  <1> HIDE DEF s
  <1>12. IsSeq(s)
    BY <1>8, <1>11, FunctionIsSeq
  <1>13. RulesSorted(s)
    BY <1>5, <1>9, <1>10 DEF RulesSorted, PolicyOK
  <1>14. ToSet(s) = {p.rules[i] : i \in on}
    <2>1. \A i \in on : \E k \in 1..n : at[k] = i
      BY <1>8 DEF ToSet
    <2> QED
      BY <1>10, <2>1 DEF ToSet
  <1> QED
    BY <1>1, <1>7, <1>12, <1>13, <1>14

-----------------------------------------------------------------------------
(* What executing the actions of a rule does to the context. *)

(* An evaluation context. *)
Ctx(stopped, block, route, effects, matched) ==
    [stopped |-> stopped, block |-> block, route |-> route, effects |-> effects, matched |-> matched]
IsCtx(c) ==
    /\ c = Ctx(c.stopped, c.block, c.route, c.effects, c.matched)
    /\ c.stopped \in BOOLEAN /\ c.block \in BOOLEAN

(* What an action does to an evaluation: route it, end it, block it. *)
Steers(a) == a.type = "route" /\ a.param # None
Stops(a) == a.type \in {"allow", "deny"}
Denies(a) == a.type = "deny"

(* What one action makes of a context. *)
Becomes(k, c, a) ==
    /\ IsCtx(k)
    /\ k.stopped <=> (c.stopped \/ Stops(a))
    /\ k.block <=> (c.block \/ Denies(a))
    /\ k.effects = IF Effective(a) THEN c.effects \cup {a} ELSE c.effects
    /\ k.route = IF Steers(a) THEN a.param ELSE c.route

(* The fields of a context. *)
LEMMA CtxFields ==
    ASSUME NEW s \in BOOLEAN, NEW b \in BOOLEAN, NEW r, NEW e, NEW m
    PROVE  LET c == Ctx(s, b, r, e, m)
           IN  IsCtx(c) /\ c.stopped = s /\ c.block = b /\ c.route = r /\ c.effects = e /\ c.matched = m
  BY DEF Ctx, IsCtx

(* Each way to change a context, *)
LEMMA ContextChanges ==
    ASSUME NEW c, IsCtx(c), NEW v
    PROVE  /\ [c EXCEPT !.effects = v] = Ctx(c.stopped, c.block, c.route, v, c.matched)
           /\ [c EXCEPT !.route = v] = Ctx(c.stopped, c.block, v, c.effects, c.matched)
           /\ [c EXCEPT !.block = v] = Ctx(c.stopped, v, c.route, c.effects, c.matched)
           /\ [c EXCEPT !.stopped = v] = Ctx(v, c.block, c.route, c.effects, c.matched)
           /\ [c EXCEPT !.matched = v] = Ctx(c.stopped, c.block, c.route, c.effects, v)
  <1>1. c = [stopped |-> c.stopped, block |-> c.block, route |-> c.route, effects |-> c.effects, matched |-> c.matched]
    BY DEF IsCtx, Ctx
  <1>2. [c EXCEPT !.effects = v] = Ctx(c.stopped, c.block, c.route, v, c.matched)
    BY <1>1 DEF Ctx
  <1>3. [c EXCEPT !.route = v] = Ctx(c.stopped, c.block, v, c.effects, c.matched)
    BY <1>1 DEF Ctx
  <1>4. [c EXCEPT !.stopped = v] = Ctx(v, c.block, c.route, c.effects, c.matched)
    BY <1>1 DEF Ctx
  <1>6. [c EXCEPT !.block = v] = Ctx(c.stopped, v, c.route, c.effects, c.matched)
    BY <1>1 DEF Ctx
  <1>5. [c EXCEPT !.matched = v] = Ctx(c.stopped, c.block, c.route, c.effects, v)
    BY <1>1 DEF Ctx
  <1> QED
    BY <1>2, <1>3, <1>4, <1>5, <1>6

(* and so each action. *)
LEMMA OneAction ==
    ASSUME NEW c, IsCtx(c), NEW a
    PROVE  Becomes(ExecuteOne(c, a), c, a)
  <1>0. c.stopped \in BOOLEAN /\ c.block \in BOOLEAN /\ c = Ctx(c.stopped, c.block, c.route, c.effects, c.matched)
    BY DEF IsCtx
  <1> DEFINE yes == TRUE
             ends == Ctx(yes, c.block, c.route, c.effects, c.matched)
             denies == Ctx(yes, yes, c.route, c.effects, c.matched)
             steers == Ctx(c.stopped, c.block, a.param, c.effects, c.matched)
             adds == Ctx(c.stopped, c.block, c.route, c.effects \cup {a}, c.matched)
  <1>y. yes \in BOOLEAN
    OBVIOUS
  <1>z. yes = TRUE
    OBVIOUS
  <1> HIDE DEF yes
  <1>a. /\ [c EXCEPT !.effects = @ \cup {a}] = adds /\ [c EXCEPT !.route = a.param] = steers
        /\ [c EXCEPT !.stopped = yes] = ends /\ [c EXCEPT !.block = yes, !.stopped = yes] = denies
    <2>1. [c EXCEPT !.effects = c.effects \cup {a}] = adds
      BY ContextChanges
    <2>2. [c EXCEPT !.route = a.param] = steers
      BY ContextChanges
    <2>3. [c EXCEPT !.stopped = yes] = ends
      BY ContextChanges
    <2>4. [c EXCEPT !.block = yes, !.stopped = yes] = denies
      <3> DEFINE d == [c EXCEPT !.block = yes]
      <3>1. d = Ctx(c.stopped, yes, c.route, c.effects, c.matched)
        BY ContextChanges
      <3>2. [c EXCEPT !.block = yes, !.stopped = yes] = [d EXCEPT !.stopped = yes]
        OBVIOUS
      <3>3. IsCtx(d) /\ d.block = yes /\ d.route = c.route /\ d.effects = c.effects /\ d.matched = c.matched
        BY <1>0, <1>y, <3>1, CtxFields
      <3> HIDE DEF d
      <3>4. [d EXCEPT !.stopped = yes] = Ctx(yes, d.block, d.route, d.effects, d.matched)
        BY <3>3, ContextChanges
      <3> QED
        BY <3>2, <3>3, <3>4
    <2> QED
      BY <2>1, <2>2, <2>3, <2>4
  <1>b. /\ IsCtx(adds) /\ adds.stopped = c.stopped /\ adds.block = c.block /\ adds.route = c.route /\ adds.effects = c.effects \cup {a}
        /\ IsCtx(steers) /\ steers.stopped = c.stopped /\ steers.block = c.block /\ steers.route = a.param /\ steers.effects = c.effects
    BY <1>0, CtxFields
  <1>c. /\ IsCtx(ends) /\ ends.stopped = yes /\ ends.block = c.block /\ ends.route = c.route /\ ends.effects = c.effects
        /\ IsCtx(denies) /\ denies.stopped = yes /\ denies.block = yes /\ denies.route = c.route /\ denies.effects = c.effects
    <2>1. IsCtx(ends) /\ ends.stopped = yes /\ ends.block = c.block /\ ends.route = c.route /\ ends.effects = c.effects
      BY <1>0, <1>y, CtxFields
    <2>2. IsCtx(denies) /\ denies.stopped = yes /\ denies.block = yes /\ denies.route = c.route /\ denies.effects = c.effects
      BY <1>0, <1>y, CtxFields
    <2> QED
      BY <2>1, <2>2
  <1> HIDE DEF adds, steers, ends, denies
  <1>1. CASE a.type = "deny"
    <2>1. ExecuteOne(c, a) = denies
      BY <1>a, <1>1 DEF ExecuteOne, executeDeny, yes
    <2> QED
      BY <1>c, <1>z, <1>1, <2>1 DEF Becomes, Stops, Denies, Effective, Steers
  <1>2. CASE a.type = "allow"
    <2>1. ExecuteOne(c, a) = ends
      BY <1>a, <1>2 DEF ExecuteOne, executeAllow, yes
    <2> QED
      BY <1>c, <1>z, <1>2, <2>1 DEF Becomes, Stops, Denies, Effective, Steers
  <1>3. CASE a.type = "route"
    <2>1. ExecuteOne(c, a) = IF a.param = None THEN c ELSE steers
      BY <1>a, <1>3 DEF ExecuteOne, executeRoute
    <2> QED
      BY <1>b, <1>3, <2>1 DEF Becomes, Stops, Denies, Effective, Steers
  <1>4. CASE a.type = "modify"
    <2>1. ExecuteOne(c, a) = IF a.param = None THEN c ELSE adds
      BY <1>a, <1>4 DEF ExecuteOne, executeModify
    <2> QED
      BY <1>b, <1>4, <2>1 DEF Becomes, Stops, Denies, Effective, Steers
  <1>5. CASE a.type = "redact"
    <2>1. ExecuteOne(c, a) = adds
      BY <1>a, <1>5 DEF ExecuteOne, executeRedact
    <2> QED
      BY <1>b, <1>5, <2>1 DEF Becomes, Stops, Denies, Effective, Steers
  <1>6. CASE a.type = "alert"
    <2>1. ExecuteOne(c, a) = IF a.param = None THEN c ELSE adds
      BY <1>a, <1>6 DEF ExecuteOne, executeAlert
    <2> QED
      BY <1>b, <1>6, <2>1 DEF Becomes, Stops, Denies, Effective, Steers
  <1>7. CASE a.type = "tag"
    <2>1. ExecuteOne(c, a) = IF a.param = None THEN c ELSE adds
      BY <1>a, <1>7 DEF ExecuteOne, executeTag
    <2> QED
      BY <1>b, <1>7, <2>1 DEF Becomes, Stops, Denies, Effective, Steers
  <1>8. CASE a.type \notin {"deny", "allow", "route", "modify", "redact", "alert", "tag"}
    <2>1. ExecuteOne(c, a) = c
      BY <1>8 DEF ExecuteOne
    <2> QED
      BY <1>8, <2>1 DEF Becomes, Stops, Denies, Effective, Steers
  <1> QED
    BY <1>1, <1>2, <1>3, <1>4, <1>5, <1>6, <1>7, <1>8

(* The contexts after each of the first n actions. *)
Loop(f, c, acts, n) == f[0] = c /\ \A i \in 1..n : f[i] = ExecuteOne(f[i - 1], acts[i])

(* Execute goes through them. *)
LEMMA ExecuteUnfolds ==
    ASSUME NEW c, NEW acts, IsSeq(acts)
    PROVE  \E f : Loop(f, c, acts, Len(acts)) /\ Execute(c, acts) = f[Len(acts)]
  <1> DEFINE Value(f, i) == IF i = 0 THEN c ELSE ExecuteOne(f[i - 1], acts[i])
             T == {k \in Nat : \E f : f = [i \in 0..k |-> Value(f, i)]}
             size == Len(acts)
  <1>1. 0 \in T
    <2>1. [i \in 0..0 |-> c] = [i \in 0..0 |-> Value([j \in 0..0 |-> c], i)]
      OBVIOUS
    <2> QED
      BY <2>1
  <1>2. ASSUME NEW k \in T PROVE k + 1 \in T
    <2>1. PICK f : f = [i \in 0..k |-> Value(f, i)]
      OBVIOUS
    <2> DEFINE g == [i \in 0..k + 1 |-> Value(f, i)]
    <2>2. ASSUME NEW i \in 0..k + 1 PROVE Value(f, i) = Value(g, i)
      <3>1. k \in Nat
        OBVIOUS
      <3>2. CASE i = 0
        BY <3>2
      <3>3. CASE i # 0
        <4>1. i - 1 \in 0..k /\ i - 1 \in 0..k + 1
          BY <3>1, <3>3
        <4> DEFINE j == i - 1
        <4>2. f[j] = Value(f, j) /\ g[j] = Value(f, j)
          <5> HIDE DEF Value, j
          <5>1. j \in 0..k /\ j \in 0..k + 1
            BY <4>1 DEF j
          <5> QED
            BY <2>1, <5>1
        <4> HIDE DEF g
        <4> QED
          BY <3>3, <4>2
      <3> QED
        BY <3>2, <3>3
    <2>3. g = [i \in 0..k + 1 |-> Value(g, i)]
      <3> HIDE DEF Value
      <3> QED
        BY <2>2
    <2> HIDE DEF g, Value
    <2> QED
      BY <2>3
  <1>3. size \in Nat
    BY SeqFacts
  <1> HIDE DEF size
  <1>4. T = Nat
    <2>1. T \in SUBSET Nat
      OBVIOUS
    <2> HIDE DEF T
    <2> QED
      BY <1>1, <1>2, <2>1, NatInduct
  <1> DEFINE h == CHOOSE f : f = [i \in 0..size |-> Value(f, i)]
  <1>5. h = [i \in 0..size |-> Value(h, i)]
    <2>1. \E f : f = [i \in 0..size |-> Value(f, i)]
      BY <1>3, <1>4
    <2> HIDE DEF Value
    <2> QED
      BY <2>1
  <1>6. Execute(c, acts) = h[size]
    BY DEF Execute, size
  <1> HIDE DEF h
  <1>7. h[0] = c /\ \A i \in 1..size : h[i] = ExecuteOne(h[i - 1], acts[i])
    <2>1. \A i \in 0..size : h[i] = Value(h, i)
      <3> HIDE DEF Value
      <3> QED
        BY <1>5
    <2>2. 0 \in 0..size /\ \A i \in 1..size : i \in 0..size /\ i # 0
      BY <1>3
    <2> QED
      BY <2>1, <2>2
  <1>8. Loop(h, c, acts, size)
    BY <1>7 DEF Loop
  <1> QED
    BY <1>6, <1>8 DEF size

(* What n actions make of a context: the last to route decides. *)
Acted(k, c, acts, n) ==
    /\ IsCtx(k)
    /\ k.stopped <=> (c.stopped \/ \E i \in 1..n : Stops(acts[i]))
    /\ k.block <=> (c.block \/ \E i \in 1..n : Denies(acts[i]))
    /\ \A a : a \in k.effects <=> (a \in c.effects \/ \E i \in 1..n : a = acts[i] /\ Effective(a))
    /\ \/ k.route = c.route /\ \A i \in 1..n : ~Steers(acts[i])
       \/ \E i \in 1..n : k.route = acts[i].param /\ Steers(acts[i]) /\ \A j \in 1..n : Steers(acts[j]) => j <= i

(* Execute makes of a context what its actions do. *)
LEMMA ExecuteActs ==
    ASSUME NEW c, IsCtx(c), NEW acts, IsSeq(acts)
    PROVE  Acted(Execute(c, acts), c, acts, Len(acts))
  <1>1. PICK f : Loop(f, c, acts, Len(acts)) /\ Execute(c, acts) = f[Len(acts)]
    BY ExecuteUnfolds
  <1>2. Len(acts) \in Nat
    BY SeqFacts
  <1> DEFINE Good(n) == n <= Len(acts) => Acted(f[n], c, acts, n)
             T == {n \in Nat : Good(n)}
  <1>3. 0 \in T
    <2>1. Acted(c, c, acts, 0)
      BY DEF Acted
    <2> QED
      BY <1>1, <2>1 DEF Loop
  <1>4. ASSUME NEW n \in T PROVE n + 1 \in T
    <2>a. n \in Nat /\ Good(n) /\ (n + 1 \in T <=> Good(n + 1))
      <3> HIDE DEF Good
      <3> QED
        OBVIOUS
    <2>1. SUFFICES ASSUME n + 1 <= Len(acts) PROVE Acted(f[n + 1], c, acts, n + 1)
      BY <2>a
    <2> DEFINE m == n + 1
               k == f[n]
               l == f[m]
    <2>2. n \in Nat /\ n <= Len(acts) /\ m \in 1..Len(acts) /\ m - 1 = n
      <3> HIDE DEF Good, T
      <3> QED
        BY <1>2, <2>1, <2>a
    <2>3. Acted(k, c, acts, n)
      BY <2>2, <2>a
    <2> HIDE DEF T, Good
    <2>4. l = ExecuteOne(f[m - 1], acts[m])
      <3> HIDE DEF m, l
      <3>1. l = f[m]
        BY DEF l
      <3> QED
        BY <1>1, <2>2, <3>1 DEF Loop
    <2>5. Becomes(l, k, acts[m])
      <3>1. IsCtx(k) /\ l = ExecuteOne(k, acts[m])
        BY <2>2, <2>3, <2>4 DEF Acted
      <3> HIDE DEF m, k, l
      <3> QED
        BY <3>1, OneAction
    <2>6. \A i : i \in 1..m <=> (i \in 1..n \/ i = m)
      BY <2>2
    <2>7. \A i \in 1..n : i <= m
      BY <2>2
    <2>8. m <= m
      BY <2>2
    <2> HIDE DEF m, k, l
    <2>9. Acted(l, c, acts, m)
      <3>1. IsCtx(l)
        BY <2>5 DEF Becomes
      <3>2. l.stopped <=> (c.stopped \/ \E i \in 1..m : Stops(acts[i]))
        BY <2>3, <2>5, <2>6 DEF Becomes, Acted
      <3>3. l.block <=> (c.block \/ \E i \in 1..m : Denies(acts[i]))
        BY <2>3, <2>5, <2>6 DEF Becomes, Acted
      <3>4. \A a : a \in l.effects <=> (a \in c.effects \/ \E i \in 1..m : a = acts[i] /\ Effective(a))
        BY <2>3, <2>5, <2>6 DEF Becomes, Acted
      <3>5. \/ l.route = c.route /\ \A i \in 1..m : ~Steers(acts[i])
            \/ \E i \in 1..m : l.route = acts[i].param /\ Steers(acts[i]) /\ \A j \in 1..m : Steers(acts[j]) => j <= i
        <4>1. CASE Steers(acts[m])
          <5>1. l.route = acts[m].param
            BY <2>5, <4>1 DEF Becomes
          <5> QED
            BY <2>6, <2>7, <2>8, <4>1, <5>1
        <4>2. CASE ~Steers(acts[m])
          <5>1. l.route = k.route
            BY <2>5, <4>2 DEF Becomes
          <5>2. CASE k.route = c.route /\ \A i \in 1..n : ~Steers(acts[i])
            BY <2>6, <4>2, <5>1, <5>2
          <5>3. CASE \E i \in 1..n : k.route = acts[i].param /\ Steers(acts[i]) /\ \A j \in 1..n : Steers(acts[j]) => j <= i
            BY <2>6, <4>2, <5>1, <5>3
          <5> QED
            BY <2>3, <5>2, <5>3 DEF Acted
        <4> QED
          BY <4>1, <4>2
      <3> QED
        BY <3>1, <3>2, <3>3, <3>4, <3>5 DEF Acted
    <2> QED
      BY <2>9 DEF l, m
  <1>5. T = Nat
    <2>1. T \in SUBSET Nat
      OBVIOUS
    <2> HIDE DEF T
    <2> QED
      BY <1>3, <1>4, <2>1, NatInduct
  <1>6. Good(Len(acts))
    <2> HIDE DEF Good
    <2> QED
      BY <1>2, <1>5
  <1>7. Acted(f[Len(acts)], c, acts, Len(acts))
    <2>1. Len(acts) <= Len(acts)
      BY <1>2
    <2> QED
      BY <1>6, <2>1, Zenon
  <1> QED
    BY <1>1, <1>7

-----------------------------------------------------------------------------
(* The context tells what the rules say that took effect. *)

(* A context tells what the pairs say that have fired. *)
Tells(c, F) ==
    /\ IsCtx(c)
    /\ c.stopped <=> \E x \in F : Types(x[2]) \cap {"allow", "deny"} # {}
    /\ c.block <=> Denied(F)
    /\ c.effects = Effects(F)
    /\ c.route = IF Routing(F) = {} THEN None ELSE Target(Routing(F))
    /\ Routing(F) # {} => c.route # None

(* The last pair to route is the target when it comes after the others. *)
LEMMA LastRoutes ==
    ASSUME NEW F, NEW x, Routes(x) # {}, \A y \in F : PairBefore(y, x) /\ ~PairBefore(x, y), ~PairBefore(x, x),
           NEW i \in Routes(x), \A j \in Routes(x) : j <= i, Routes(x) \subseteq Nat
    PROVE  Routing(F \cup {x}) # {} /\ Target(Routing(F \cup {x})) = x[2].actions[i].param
  <1> DEFINE G == Routing(F \cup {x})
             last == CHOOSE y \in G : ~\E z \in G : PairBefore(y, z)
  <1>1. x \in G /\ \A y \in G : y \in F \/ y = x
    BY DEF Routing
  <1> HIDE DEF G
  <1>2. last = x
    BY <1>1
  <1> DEFINE top == CHOOSE j \in Routes(x) : \A k \in Routes(x) : k <= j
  <1>3. top = i
    <2>1. \A j \in Routes(x) : (\A k \in Routes(x) : k <= j) => j = i
      OBVIOUS
    <2> QED
      BY <2>1
  <1>4. Target(G) = last[2].actions[CHOOSE j \in Routes(last) : \A k \in Routes(last) : k <= j].param
    BY DEF Target
  <1> HIDE DEF last
  <1>5. Target(G) = x[2].actions[top].param
    BY <1>2, <1>4
  <1> QED
    BY <1>1, <1>3, <1>5 DEF G

(* A rule that matches: its actions are executed. *)
LEMMA RuleFires ==
    ASSUME NEW F, NEW x, NEW c, Tells(c, F), IsSeq(x[2].actions),
           \A y \in F : PairBefore(y, x) /\ ~PairBefore(x, y), ~PairBefore(x, x)
    PROVE  Tells(Execute(c, x[2].actions), F \cup {x})
  <1> DEFINE acts == x[2].actions
             n == Len(acts)
             k == Execute(c, acts)
             G == F \cup {x}
  <1>1. n \in Nat /\ DOMAIN acts = 1..n
    BY SeqFacts
  <1>2. Acted(k, c, acts, n)
    <2>1. IsCtx(c)
      BY DEF Tells
    <2> HIDE DEF acts
    <2> QED
      BY <2>1, ExecuteActs DEF acts
  <1> HIDE DEF k, n
  <1>3. IsCtx(k)
    BY <1>2 DEF Acted
  <1>4. k.stopped <=> \E y \in G : Types(y[2]) \cap {"allow", "deny"} # {}
    <2>1. (\E i \in 1..n : Stops(acts[i])) <=> Types(x[2]) \cap {"allow", "deny"} # {}
      BY <1>1 DEF Types, Stops
    <2>2. k.stopped <=> (c.stopped \/ \E i \in 1..n : Stops(acts[i]))
      BY <1>2 DEF Acted
    <2>3. c.stopped <=> \E y \in F : Types(y[2]) \cap {"allow", "deny"} # {}
      BY DEF Tells
    <2> HIDE DEF acts
    <2> QED
      BY <2>1, <2>2, <2>3
  <1>5. k.block <=> Denied(G)
    <2>1. (\E i \in 1..n : Denies(acts[i])) <=> "deny" \in Types(x[2])
      BY <1>1 DEF Types, Denies
    <2>2. k.block <=> (c.block \/ \E i \in 1..n : Denies(acts[i]))
      BY <1>2 DEF Acted
    <2>3. c.block <=> Denied(F)
      BY DEF Tells
    <2> HIDE DEF acts
    <2> QED
      BY <2>1, <2>2, <2>3 DEF Denied
  <1>6. k.effects = Effects(G)
    <2>1. \A a : (\E i \in 1..n : a = acts[i] /\ Effective(a)) <=> (a \in ToSet(acts) /\ Effective(a))
      BY <1>1 DEF ToSet
    <2>2. \A a : a \in k.effects <=> (a \in c.effects \/ \E i \in 1..n : a = acts[i] /\ Effective(a))
      BY <1>2 DEF Acted
    <2>3. c.effects = Effects(F)
      BY DEF Tells
    <2>4. \A a : a \in Effects(G) <=> (a \in Effects(F) \/ (a \in ToSet(acts) /\ Effective(a)))
      BY DEF Effects
    <2>5. \A a : a \in k.effects <=> a \in Effects(G)
      BY <2>1, <2>2, <2>3, <2>4
    <2> HIDE DEF G, acts
    <2> QED
      BY <2>5
  <1>7. /\ k.route = IF Routing(G) = {} THEN None ELSE Target(Routing(G))
        /\ Routing(G) # {} => k.route # None
    <2>1. \A i : i \in Routes(x) <=> i \in 1..n /\ Steers(acts[i])
      BY <1>1 DEF Routes, Steers
    <2>2. CASE k.route = c.route /\ \A i \in 1..n : ~Steers(acts[i])
      <3>1. Routing(G) = Routing(F)
        BY <2>1, <2>2 DEF Routing
      <3> HIDE DEF G, acts
      <3> QED
        BY <2>2, <3>1 DEF Tells
    <2>3. CASE \E i \in 1..n : k.route = acts[i].param /\ Steers(acts[i]) /\ \A j \in 1..n : Steers(acts[j]) => j <= i
      <3>1. PICK i \in 1..n : k.route = acts[i].param /\ Steers(acts[i]) /\ \A j \in 1..n : Steers(acts[j]) => j <= i
        BY <2>3
      <3>2. i \in Routes(x) /\ Routes(x) # {} /\ \A j \in Routes(x) : j <= i
        BY <2>1, <3>1
      <3>3. Routes(x) \subseteq Nat
        BY <1>1, <2>1
      <3>4. Routing(G) # {} /\ Target(Routing(G)) = acts[i].param
        BY <3>2, <3>3, LastRoutes
      <3> HIDE DEF G, acts
      <3> QED
        BY <3>1, <3>4 DEF Steers
    <2> QED
      BY <1>2, <2>2, <2>3 DEF Acted
  <1>8. Tells(k, G)
    BY <1>3, <1>4, <1>5, <1>6, <1>7 DEF Tells
  <1> QED
    BY <1>8 DEF k

(* The record of the rules evaluated changes nothing else. *)
LEMMA RecordedTells ==
    ASSUME NEW F, NEW c, Tells(c, F), NEW p, NEW r
    PROVE  Tells(Recorded(c, p, r), F)
  <1> DEFINE v == c.matched \cup {<<p.name, r.name>>}
             k == Ctx(c.stopped, c.block, c.route, c.effects, v)
  <1>1. IsCtx(c) /\ c.stopped \in BOOLEAN /\ c.block \in BOOLEAN
    BY DEF Tells, IsCtx
  <1>2. Recorded(c, p, r) = [c EXCEPT !.matched = v]
    BY DEF Recorded
  <1> HIDE DEF v
  <1>3. Recorded(c, p, r) = k
    BY <1>1, <1>2, ContextChanges
  <1>4. IsCtx(k) /\ k.stopped = c.stopped /\ k.block = c.block /\ k.route = c.route /\ k.effects = c.effects
    BY <1>1, CtxFields
  <1> HIDE DEF k
  <1>5. Tells(k, F)
    BY <1>4 DEF Tells
  <1> QED
    BY <1>3, <1>5

(* A new context: nothing has fired. *)
LEMMA NewTells == Tells(NewContext, {})
  <1> DEFINE no == FALSE
             none == {}
             k == Ctx(no, no, None, none, none)
  <1>1. NewContext = k
    BY DEF NewContext, Ctx
  <1>2. no \in BOOLEAN
    OBVIOUS
  <1>3. ~no
    OBVIOUS
  <1> HIDE DEF no
  <1>4. IsCtx(k) /\ k.stopped = no /\ k.block = no /\ k.route = None /\ k.effects = none
    BY <1>2, CtxFields
  <1> HIDE DEF k
  <1>5. ~Denied({}) /\ Effects({}) = {} /\ Routing({}) = {}
    BY DEF Denied, Effects, Routing
  <1>6. Tells(k, {})
    BY <1>3, <1>4, <1>5 DEF Tells
  <1> QED
    BY <1>1, <1>6

-----------------------------------------------------------------------------
(* The decision, and the pairs of a policy and a rule that are reached.    *)

(* A decision says what the reference does. *)
Agrees(d, ref) == d.action = ref.action /\ d.effects = ref.effects /\ d.route = ref.route
Modes == {"fail-open", "fail-closed", "fail-safe-default"}

(* The action a context calls for. *)
LEMMA ActionTells ==
    ASSUME NEW c, NEW F, Tells(c, F)
    PROVE  /\ ActionOf(c) = IF Denied(F) THEN "block" ELSE IF Routing(F) # {} THEN "route"
                            ELSE IF \E a \in Effects(F) : a.type = "modify" THEN "transform" ELSE "allow"
           /\ buildDecision(c, ActionOf(c)).route = IF ~Denied(F) /\ Routing(F) # {} THEN Target(Routing(F)) ELSE None
  <1>1. /\ c.block <=> Denied(F)
        /\ c.route # None <=> Routing(F) # {}
        /\ c.effects = Effects(F)
        /\ c.route = IF Routing(F) = {} THEN None ELSE Target(Routing(F))
    BY DEF Tells
  <1>2. ActionOf(c) = IF Denied(F) THEN "block" ELSE IF Routing(F) # {} THEN "route"
                      ELSE IF \E a \in Effects(F) : a.type = "modify" THEN "transform" ELSE "allow"
    <2>1. CASE Denied(F)
      BY <1>1, <2>1 DEF ActionOf
    <2>2. CASE ~Denied(F) /\ Routing(F) # {}
      BY <1>1, <2>2 DEF ActionOf
    <2>3. CASE ~Denied(F) /\ Routing(F) = {} /\ \E a \in Effects(F) : a.type = "modify"
      BY <1>1, <2>3 DEF ActionOf
    <2>4. CASE ~Denied(F) /\ Routing(F) = {} /\ ~\E a \in Effects(F) : a.type = "modify"
      BY <1>1, <2>4 DEF ActionOf
    <2> QED
      BY <2>1, <2>2, <2>3, <2>4
  <1>3. buildDecision(c, ActionOf(c)).route = IF ActionOf(c) = "route" THEN c.route ELSE None
    BY DEF buildDecision
  <1>4. ActionOf(c) = "route" <=> ~Denied(F) /\ Routing(F) # {}
    BY <1>2
  <1> QED
    BY <1>1, <1>2, <1>3, <1>4

(* A decision has the action given, what the context collected, and the    *)
(* route whatever the action.                                              *)
LEMMA DecisionFields ==
    ASSUME NEW c, NEW a
    PROVE  /\ buildDecision(c, a).action = a /\ buildDecision(c, a).effects = c.effects
           /\ buildDecision(c, a).route = buildDecision(c, ActionOf(c)).route
  BY DEF buildDecision

(* A context that tells of the pairs reached gives the decision, unless a  *)
(* condition could not be decided: *)
LEMMA DecisionAgrees ==
    ASSUME NEW S, NEW q, NEW m, NEW c, Tells(c, Fired(Reached(S, q, m), q, m)),
           NEW a, a = IF \E x \in Reached(S, q, m) : Result(x, q, m) = "error"
                      THEN IF m = "fail-open" THEN "allow" ELSE IF m = "fail-closed" THEN "block" ELSE DefaultAction
                      ELSE ActionOf(c)
    PROVE  Agrees(buildDecision(c, a), Reference(S, q, m))
  <1> DEFINE reached == Reached(S, q, m)
             fired == Fired(reached, q, m)
             d == buildDecision(c, a)
             ref == Reference(S, q, m)
  <1>1. /\ ref.action = IF \E x \in reached : Result(x, q, m) = "error"
                        THEN IF m = "fail-open" THEN "allow" ELSE IF m = "fail-closed" THEN "block" ELSE DefaultAction
                        ELSE IF Denied(fired) THEN "block"
                        ELSE IF Routing(fired) # {} THEN "route"
                        ELSE IF \E b \in Effects(fired) : b.type = "modify" THEN "transform" ELSE "allow"
        /\ ref.effects = Effects(fired)
        /\ ref.route = IF ~Denied(fired) /\ Routing(fired) # {} THEN Target(Routing(fired)) ELSE None
    BY DEF Reference
  <1>2. Tells(c, fired)
    OBVIOUS
  <1>3. d.action = a /\ d.effects = c.effects /\ d.route = buildDecision(c, ActionOf(c)).route
    BY DecisionFields
  <1>4. a = IF \E x \in reached : Result(x, q, m) = "error"
            THEN IF m = "fail-open" THEN "allow" ELSE IF m = "fail-closed" THEN "block" ELSE DefaultAction
            ELSE ActionOf(c)
    OBVIOUS
  <1> HIDE DEF reached, fired, d, ref
  <1>5. /\ ActionOf(c) = IF Denied(fired) THEN "block" ELSE IF Routing(fired) # {} THEN "route"
                         ELSE IF \E b \in Effects(fired) : b.type = "modify" THEN "transform" ELSE "allow"
        /\ buildDecision(c, ActionOf(c)).route = IF ~Denied(fired) /\ Routing(fired) # {} THEN Target(Routing(fired)) ELSE None
    BY <1>2, ActionTells
  <1>6. d.action = ref.action
    BY <1>1, <1>3, <1>4, <1>5
  <1>7. d.effects = ref.effects
    BY <1>1, <1>2, <1>3 DEF Tells
  <1>8. d.route = ref.route
    BY <1>1, <1>3, <1>5
  <1> QED
    BY <1>6, <1>7, <1>8 DEF Agrees, d, ref

(* A pair of a policy in order and one of its rules. *)
PairOK(x) == PolicyOK(x[1]) /\ RuleOK(x[2])

(* Of two pairs at most one is before the other. *)
LEMMA PairsOneWay ==
    ASSUME NEW x, PairOK(x), NEW y, PairOK(y), PairBefore(x, y)
    PROVE  ~PairBefore(y, x)
  <1>1. /\ GetPolicyPriority(x[1]) \in Nat /\ GetPolicyPriority(y[1]) \in Nat /\ x[1].name \in Nat /\ y[1].name \in Nat
        /\ GetRulePriority(x[2]) \in Nat /\ GetRulePriority(y[2]) \in Nat /\ x[2].name \in Nat /\ y[2].name \in Nat
    BY DEF PairOK, PolicyOK, RuleOK
  <1>2. ~(PolicyBefore(x[1], y[1]) /\ PolicyBefore(y[1], x[1]))
    BY <1>1 DEF PolicyBefore
  <1>3. ~(RuleBefore(x[2], y[2]) /\ RuleBefore(y[2], x[2]))
    BY <1>1 DEF RuleBefore
  <1>4. x[1] = y[1] => ~PolicyBefore(x[1], y[1]) /\ ~PolicyBefore(y[1], x[1])
    BY <1>1 DEF PolicyBefore
  <1> QED
    BY <1>2, <1>3, <1>4 DEF PairBefore

(* The pairs of sorted policies consist of such a policy and rule. *)
LEMMA PairsOf ==
    ASSUME NEW S
    PROVE  /\ \A x : x \in Pairs(S) <=> \E p \in S : \E r \in ToSet(p.rules) : r.enabled /\ x = <<p, r>>
           /\ (\A p \in S : PolicyOK(p)) => \A x \in Pairs(S) : PairOK(x)
  <1>1. \A x : x \in Pairs(S) <=> \E p \in S : \E r \in ToSet(p.rules) : r.enabled /\ x = <<p, r>>
    BY DEF Pairs
  <1>2. ASSUME \A p \in S : PolicyOK(p), NEW x \in Pairs(S) PROVE PairOK(x)
    <2>1. PICK p \in S : \E r \in ToSet(p.rules) : r.enabled /\ x = <<p, r>>
      BY <1>1
    <2>2. PICK r \in ToSet(p.rules) : x = <<p, r>>
      BY <2>1
    <2>3. x[1] = p /\ x[2] = r
      BY <2>2
    <2> QED
      BY <1>2, <2>3 DEF PairOK, PolicyOK
  <1> QED
    BY <1>1, <1>2

(* When a pair ends the evaluation, the ones before it, none of which      *)
(* does, and it are reached, and no more.                                  *)
LEMMA ReachedSoFar ==
    ASSUME NEW S, \A p \in S : PolicyOK(p), NEW q, NEW m, NEW D \in SUBSET Pairs(S), NEW x \in Pairs(S), x \notin D,
           \A y \in D : ~Ends(y, q, m) /\ \A z \in Pairs(S) \ D : PairBefore(y, z),
           Ends(x, q, m), \A z \in Pairs(S) \ D : z # x => PairBefore(x, z)
    PROVE  Reached(S, q, m) = D \cup {x}
  <1>1. \A y, z \in Pairs(S) : PairBefore(y, z) => ~PairBefore(z, y)
    BY PairsOf, PairsOneWay
  <1>2. ASSUME NEW y \in Reached(S, q, m) PROVE y \in D \cup {x}
    BY DEF Reached
  <1>3. ASSUME NEW y \in D \cup {x}, NEW z \in Pairs(S), Ends(z, q, m), PairBefore(z, y) PROVE FALSE
    BY <1>1, <1>3
  <1>4. \A y \in D \cup {x} : y \in Reached(S, q, m)
    BY <1>3 DEF Reached
  <1> QED
    BY <1>2, <1>4

(* When none ends it, all are. *)
LEMMA ReachedAll ==
    ASSUME NEW S, NEW q, NEW m, \A y \in Pairs(S) : ~Ends(y, q, m)
    PROVE  Reached(S, q, m) = Pairs(S)
  BY DEF Reached

-----------------------------------------------------------------------------
(* Where an evaluation is in the list it took. *)

(* The head and the rest of a sequence. *)
LEMMA HeadAndTail ==
    ASSUME NEW s, IsSeq(s), s # <<>>
    PROVE  /\ Len(s) \in Nat /\ DOMAIN s = 1..Len(s) /\ 1 \in DOMAIN s /\ Head(s) = s[1]
           /\ IsSeq(Tail(s)) /\ DOMAIN Tail(s) = 1..Len(s) - 1
           /\ \A i \in 1..Len(s) - 1 : Tail(s)[i] = s[i + 1]
           /\ ToSet(s) = {Head(s)} \cup ToSet(Tail(s))
  <1> DEFINE n == Len(s)
             t == Tail(s)
  <1>1. n \in Nat /\ DOMAIN s = 1..n /\ n # 0 /\ s \in [1..n -> ToSet(s)]
    BY SeqFacts
  <1>2. Head(s) = s[1] /\ t = [i \in 1..n - 1 |-> s[i + 1]]
    <2> DEFINE E == ToSet(s)
    <2>1. s \in Seq(E)
      BY DEF IsSeq
    <2> HIDE DEF E
    <2>2. Head(s) = s[1]
      BY <2>1
    <2>3. Tail(s) \in Seq(E) /\ Len(Tail(s)) = n - 1 /\ \A i \in 1..n - 1 : Tail(s)[i] = s[i + 1]
      BY <1>1, <2>1
    <2> HIDE DEF t, n
    <2>6. t \in Seq(E) /\ Len(t) = n - 1
      BY <2>3 DEF t
    <2>7. t \in [1..Len(t) -> E]
      BY <2>6
    <2>4. t = [i \in 1..n - 1 |-> t[i]]
      BY <2>6, <2>7
    <2>5. \A i \in 1..n - 1 : t[i] = s[i + 1]
      BY <2>3 DEF t
    <2> QED
      BY <2>2, <2>4, <2>5
  <1> HIDE DEF n, t
  <1>3. 1 \in 1..n /\ n - 1 \in Nat /\ \A i \in 1..n - 1 : i + 1 \in 1..n
    BY <1>1
  <1>4. t \in [1..n - 1 -> ToSet(s)]
    BY <1>1, <1>2, <1>3
  <1>5. IsSeq(t) /\ DOMAIN t = 1..n - 1
    BY <1>3, <1>4, FunctionIsSeq
  <1>6. \A i \in 1..n - 1 : t[i] = s[i + 1]
    BY <1>2
  <1>7. ToSet(s) = {s[1]} \cup ToSet(t)
    <2>1. ASSUME NEW i \in 1..n, i # 1 PROVE s[i] \in ToSet(t)
      <3>1. i - 1 \in 1..n - 1 /\ (i - 1) + 1 = i
        BY <1>1, <2>1
      <3> QED
        BY <1>5, <1>6, <3>1 DEF ToSet
    <2>2. \A y \in ToSet(t) : y \in ToSet(s)
      BY <1>1, <1>3, <1>5, <1>6 DEF ToSet
    <2>3. s[1] \in ToSet(s)
      BY <1>1, <1>3 DEF ToSet
    <2>4. \A y \in ToSet(s) : y = s[1] \/ y \in ToSet(t)
      BY <1>1, <2>1 DEF ToSet
    <2> QED
      BY <2>2, <2>3, <2>4
  <1> QED
    BY <1>1, <1>2, <1>3, <1>5, <1>6, <1>7 DEF n, t

(* Of a sorted sequence the head is before the rest, which is sorted. *)
LEMMA RulesTail ==
    ASSUME NEW s, IsSeq(s), s # <<>>, RulesSorted(s)
    PROVE  RulesSorted(Tail(s)) /\ \A r \in ToSet(Tail(s)) : RuleBefore(Head(s), r)
  <1> DEFINE n == Len(s)
             t == Tail(s)
  <1>1. n \in Nat /\ DOMAIN s = 1..n /\ 1 \in 1..n /\ Head(s) = s[1] /\ DOMAIN t = 1..n - 1 /\ \A i \in 1..n - 1 : t[i] = s[i + 1]
    BY HeadAndTail
  <1> HIDE DEF n, t
  <1>2. \A i \in 1..n - 1 : i + 1 \in 1..n /\ 1 < i + 1
    BY <1>1
  <1>3. \A i, j \in 1..n - 1 : i < j => i + 1 < j + 1
    BY <1>1
  <1>4. RulesSorted(t)
    BY <1>1, <1>2, <1>3 DEF RulesSorted
  <1>5. \A r \in ToSet(t) : RuleBefore(s[1], r)
    BY <1>1, <1>2 DEF RulesSorted, ToSet
  <1> QED
    BY <1>1, <1>4, <1>5 DEF t

(* The same for policies. *)
LEMMA PoliciesTail ==
    ASSUME NEW s, IsSeq(s), s # <<>>, PoliciesSorted(s)
    PROVE  PoliciesSorted(Tail(s)) /\ \A r \in ToSet(Tail(s)) : PolicyBefore(Head(s), r)
  <1> DEFINE n == Len(s)
             t == Tail(s)
  <1>1. n \in Nat /\ DOMAIN s = 1..n /\ 1 \in 1..n /\ Head(s) = s[1] /\ DOMAIN t = 1..n - 1 /\ \A i \in 1..n - 1 : t[i] = s[i + 1]
    BY HeadAndTail
  <1> HIDE DEF n, t
  <1>2. \A i \in 1..n - 1 : i + 1 \in 1..n /\ 1 < i + 1
    BY <1>1
  <1>3. \A i, j \in 1..n - 1 : i < j => i + 1 < j + 1
    BY <1>1
  <1>4. PoliciesSorted(t)
    BY <1>1, <1>2, <1>3 DEF PoliciesSorted
  <1>5. \A r \in ToSet(t) : PolicyBefore(s[1], r)
    BY <1>1, <1>2 DEF PoliciesSorted, ToSet
  <1> QED
    BY <1>1, <1>4, <1>5 DEF t

(* An evaluation that is under way *)

(* The pairs an evaluation has still to evaluate, those it has passed, and *)
(* what it knows of the list it took.                                      *)
LeftOf(pc, rest, rules) ==
    IF pc = "policy" THEN Pairs(ToSet(rest)) ELSE ({Head(rest)} \X ToSet(rules)) \cup Pairs(ToSet(Tail(rest)))
Position(pc, rest, rules, ps) ==
    /\ IsSeq(rest) /\ PoliciesSorted(rest) /\ ToSet(rest) \subseteq ToSet(ps)
    /\ pc = "rule" => /\ rest # <<>> /\ IsSeq(rules) /\ RulesSorted(rules)
                      /\ ToSet(rules) \subseteq {r \in ToSet(Head(rest).rules) : r.enabled}
Passed(left, ps, q, m, ctx) ==
    LET D == Pairs(ToSet(ps)) \ left IN
    /\ \A x \in D : ~Ends(x, q, m) /\ \A y \in left : PairBefore(x, y)
    /\ Tells(ctx, Fired(D, q, m))
Running(pc, q, rest, rules, ctx) == [pc |-> pc, request |-> q, rest |-> rest, rules |-> rules, ctx |-> ctx]
Underway(ev, ps, m) ==
    /\ ev = Running(ev.pc, ev.request, ev.rest, ev.rules, ev.ctx)
    /\ ev.pc \in {"policy", "rule"}
    /\ Position(ev.pc, ev.rest, ev.rules, ps)
    /\ Passed(LeftOf(ev.pc, ev.rest, ev.rules), ps, ev.request, m, ev.ctx)

(* An evaluation begins with the whole list. *)
LEMMA EvaluationBegins ==
    ASSUME NEW ps, ListOK(ps), NEW q, NEW m
    PROVE  Position("policy", ps, <<>>, ps) /\ Passed(LeftOf("policy", ps, <<>>), ps, q, m, NewContext)
  <1>1. Position("policy", ps, <<>>, ps)
    BY DEF Position, ListOK
  <1>2. LeftOf("policy", ps, <<>>) = Pairs(ToSet(ps))
    BY DEF LeftOf
  <1>3. Fired({}, q, m) = {}
    BY DEF Fired
  <1>4. Passed(Pairs(ToSet(ps)), ps, q, m, NewContext)
    BY <1>3, NewTells DEF Passed
  <1> QED
    BY <1>1, <1>2, <1>4

(* It comes to the next policy, *)
LEMMA PolicyBegins ==
    ASSUME NEW ps, ListOK(ps), NEW rest, NEW rules, Position("policy", rest, rules, ps), rest # <<>>
    PROVE  /\ Position("rule", rest, EnabledRules(Head(rest)), ps)
           /\ LeftOf("rule", rest, EnabledRules(Head(rest))) = LeftOf("policy", rest, rules)
  <1> DEFINE p == Head(rest)
  <1>1. IsSeq(rest) /\ PoliciesSorted(rest) /\ ToSet(rest) \subseteq ToSet(ps)
    BY DEF Position
  <1>2. ToSet(rest) = {p} \cup ToSet(Tail(rest))
    BY <1>1, HeadAndTail
  <1>3. PolicyOK(p)
    BY <1>1, <1>2 DEF ListOK
  <1> HIDE DEF p
  <1>4. IsSeq(EnabledRules(p)) /\ RulesSorted(EnabledRules(p)) /\ ToSet(EnabledRules(p)) = {r \in ToSet(p.rules) : r.enabled}
    BY <1>3, EnabledAreSorted
  <1>5. Position("rule", rest, EnabledRules(p), ps)
    BY <1>1, <1>4 DEF Position, p
  <1>6. Pairs({p} \cup ToSet(Tail(rest))) = ({p} \X ToSet(EnabledRules(p))) \cup Pairs(ToSet(Tail(rest)))
    <2> DEFINE T == ToSet(Tail(rest))
    <2> HIDE DEF T
    <2>1. Pairs({p} \cup T) = ({p} \X {r \in ToSet(p.rules) : r.enabled}) \cup Pairs(T)
      BY DEF Pairs
    <2> QED
      BY <1>4, <2>1 DEF T
  <1> QED
    BY <1>2, <1>5, <1>6 DEF LeftOf, p

(* leaves a policy, *)
LEMMA PolicyEnds ==
    ASSUME NEW ps, NEW rest, NEW rules, Position("rule", rest, rules, ps), rules = <<>>
    PROVE  /\ Position("policy", Tail(rest), rules, ps)
           /\ LeftOf("policy", Tail(rest), rules) = LeftOf("rule", rest, rules)
  <1>1. IsSeq(rest) /\ PoliciesSorted(rest) /\ ToSet(rest) \subseteq ToSet(ps) /\ rest # <<>>
    BY DEF Position
  <1>2. ToSet(rest) = {Head(rest)} \cup ToSet(Tail(rest)) /\ IsSeq(Tail(rest)) /\ PoliciesSorted(Tail(rest))
    BY <1>1, HeadAndTail, PoliciesTail
  <1>3. ToSet(rules) = {}
    BY NothingInEmpty
  <1> QED
    BY <1>1, <1>2, <1>3 DEF Position, LeftOf

(* and evaluates a rule: it comes before all that is left but itself. *)
LEMMA RuleLeaves ==
    ASSUME NEW ps, ListOK(ps), NEW rest, NEW rules, Position("rule", rest, rules, ps), rules # <<>>
    PROVE  LET x == <<Head(rest), Head(rules)>>
               left == LeftOf("rule", rest, rules)
           IN  /\ x \in left /\ left \subseteq Pairs(ToSet(ps)) /\ PairOK(x)
               /\ Position("rule", rest, Tail(rules), ps)
               /\ LeftOf("rule", rest, Tail(rules)) = left \ {x}
               /\ \A y \in left : y # x => PairBefore(x, y)
  <1> DEFINE p == Head(rest)
             r == Head(rules)
             x == <<p, r>>
             T == ToSet(Tail(rest))
             left == LeftOf("rule", rest, rules)
  <1>1. /\ IsSeq(rest) /\ PoliciesSorted(rest) /\ ToSet(rest) \subseteq ToSet(ps) /\ rest # <<>>
        /\ IsSeq(rules) /\ RulesSorted(rules) /\ ToSet(rules) \subseteq {s \in ToSet(p.rules) : s.enabled}
    BY DEF Position
  <1>2. ToSet(rest) = {p} \cup T /\ \A s \in T : PolicyBefore(p, s)
    BY <1>1, HeadAndTail, PoliciesTail
  <1>3. /\ ToSet(rules) = {r} \cup ToSet(Tail(rules)) /\ IsSeq(Tail(rules)) /\ RulesSorted(Tail(rules))
        /\ \A s \in ToSet(Tail(rules)) : RuleBefore(r, s)
    BY <1>1, HeadAndTail, RulesTail
  <1>4. left = ({p} \X ToSet(rules)) \cup Pairs(T)
    BY DEF LeftOf
  <1>5. LeftOf("rule", rest, Tail(rules)) = ({p} \X ToSet(Tail(rules))) \cup Pairs(T)
    BY DEF LeftOf
  <1>6. Position("rule", rest, Tail(rules), ps)
    BY <1>1, <1>3 DEF Position
  <1> HIDE DEF p, r, T, left
  <1>7. x[1] = p /\ x[2] = r
    OBVIOUS
  <1>8. left \subseteq Pairs(ToSet(ps)) /\ x \in left
    <2>1. T \subseteq ToSet(ps) /\ p \in ToSet(ps)
      BY <1>1, <1>2
    <2>2. \A y \in Pairs(T) : y \in Pairs(ToSet(ps))
      BY <2>1, PairsOf
    <2>3. \A s \in ToSet(rules) : s \in ToSet(p.rules) /\ s.enabled
      BY <1>1
    <2>4. \A y \in {p} \X ToSet(rules) : y \in Pairs(ToSet(ps))
      BY <2>1, <2>3, PairsOf
    <2>5. x \in {p} \X ToSet(rules)
      BY <1>3
    <2> QED
      BY <1>4, <2>2, <2>4, <2>5
  <1>9. PairOK(x) /\ ~PairBefore(x, x)
    <2>1. PairOK(x)
      BY <1>8, PairsOf DEF ListOK
    <2> HIDE DEF x
    <2> QED
      BY <2>1, PairsOneWay
  <1>10. \A y \in ({p} \X ToSet(Tail(rules))) \cup Pairs(T) : PairBefore(x, y)
    <2>1. ASSUME NEW y \in {p} \X ToSet(Tail(rules)) PROVE PairBefore(x, y)
      BY <1>3, <1>7 DEF PairBefore
    <2>2. ASSUME NEW y \in Pairs(T) PROVE PairBefore(x, y)
      <3>1. PICK s \in T : \E u \in ToSet(s.rules) : u.enabled /\ y = <<s, u>>
        BY PairsOf
      <3>2. y[1] = s
        BY <3>1
      <3> QED
        BY <1>2, <1>7, <3>1, <3>2 DEF PairBefore
    <2> QED
      BY <2>1, <2>2
  <1>11. left = {x} \cup (({p} \X ToSet(Tail(rules))) \cup Pairs(T))
    BY <1>3, <1>4
  <1> HIDE DEF x
  <1>12. left \ {x} = ({p} \X ToSet(Tail(rules))) \cup Pairs(T)
    BY <1>9, <1>10, <1>11
  <1>13. \A y \in left : y # x => PairBefore(x, y)
    BY <1>10, <1>11
  <1> QED
    BY <1>5, <1>6, <1>8, <1>9, <1>12, <1>13 DEF p, r, x, left, T

-----------------------------------------------------------------------------
(* One step of an evaluation: a rule, *)

(* What an evaluation under way has for fields, *)
LEMMA RunningFields ==
    ASSUME NEW pc, NEW q, NEW rest, NEW rules, NEW ctx
    PROVE  LET ev == Running(pc, q, rest, rules, ctx)
           IN  ev.pc = pc /\ ev.request = q /\ ev.rest = rest /\ ev.rules = rules /\ ev.ctx = ctx
  BY DEF Running

(* how they change, *)
LEMMA RunningChanges ==
    ASSUME NEW ev, ev = Running(ev.pc, ev.request, ev.rest, ev.rules, ev.ctx), NEW v
    PROVE  /\ [ev EXCEPT !.pc = v] = Running(v, ev.request, ev.rest, ev.rules, ev.ctx)
           /\ [ev EXCEPT !.rest = v] = Running(ev.pc, ev.request, v, ev.rules, ev.ctx)
           /\ [ev EXCEPT !.rules = v] = Running(ev.pc, ev.request, ev.rest, v, ev.ctx)
           /\ [ev EXCEPT !.ctx = v] = Running(ev.pc, ev.request, ev.rest, ev.rules, v)
  <1>1. ev = [pc |-> ev.pc, request |-> ev.request, rest |-> ev.rest, rules |-> ev.rules, ctx |-> ev.ctx]
    BY DEF Running
  <1> QED
    BY <1>1 DEF Running

(* and what fields one has that is done. *)
LEMMA DoneFields ==
    ASSUME NEW q, NEW ctx, NEW action, NEW error
    PROVE  LET ev == Done(q, ctx, action, error)
           IN  ev.pc = "done" /\ ev.request = q /\ ev.error = error /\ ev.decision = buildDecision(ctx, action)
  BY DEF Done

(* The action of each fail-safe mode. *)
FailSafeFor(m) == IF m = "fail-open" THEN "allow" ELSE IF m = "fail-closed" THEN "block" ELSE DefaultAction

(* A decision is explained by one of the lists installed meanwhile. *)
Explained(ev, seen, m) ==
    IF ev.error = "timeout" THEN ev.decision.action = FailSafeFor(m)
    ELSE \E ps \in seen : Agrees(ev.decision, Reference(ToSet(ps), ev.request, m))

(* An evaluation rests, is under way with one of these lists, or is done. *)
EvalOK(ev, seen, m) ==
    \/ ev.pc = "idle"
    \/ \E ps \in seen : ListOK(ps) /\ Underway(ev, ps, m)
    \/ ev.pc = "done" /\ Explained(ev, seen, m)

(* handleEvaluationError takes it. *)
LEMMA FailSafeIs ==
    ASSUME mode \in Modes
    PROVE  FailSafeAction = FailSafeFor(mode)
  BY DEF FailSafeAction, FailSafeFor, Modes

(* A deadline leads to the fail-safe action. *)
LEMMA TimeoutExplained ==
    ASSUME mode \in Modes, NEW ev, NEW ctx, NEW seen
    PROVE  EvalOK(Failed(ev, ctx, "timeout"), seen, mode)
  <1>1. Failed(ev, ctx, "timeout") = Done(ev.request, ctx, FailSafeAction, "timeout")
    BY DEF Failed
  <1> DEFINE d == Done(ev.request, ctx, FailSafeAction, "timeout")
  <1>2. d.pc = "done" /\ d.error = "timeout" /\ d.decision = buildDecision(ctx, FailSafeAction)
    BY DoneFields
  <1>3. d.decision.action = FailSafeFor(mode)
    BY <1>2, DecisionFields, FailSafeIs
  <1> HIDE DEF d
  <1>4. EvalOK(d, seen, mode)
    BY <1>2, <1>3 DEF EvalOK, Explained
  <1> QED
    BY <1>1, <1>4 DEF d

(* What the pairs reached tell is the decision. *)
LEMMA DoneExplained ==
    ASSUME NEW ps, NEW seen, ps \in seen, NEW q, NEW m, NEW ctx, NEW error, error # "timeout",
           Tells(ctx, Fired(Reached(ToSet(ps), q, m), q, m)),
           NEW action, action = IF \E x \in Reached(ToSet(ps), q, m) : Result(x, q, m) = "error" THEN FailSafeFor(m)
                                ELSE ActionOf(ctx)
    PROVE  EvalOK(Done(q, ctx, action, error), seen, m)
  <1> DEFINE S == ToSet(ps)
             d == Done(q, ctx, action, error)
  <1>1. action = IF \E x \in Reached(S, q, m) : Result(x, q, m) = "error"
                 THEN IF m = "fail-open" THEN "allow" ELSE IF m = "fail-closed" THEN "block" ELSE DefaultAction
                 ELSE ActionOf(ctx)
    BY DEF FailSafeFor
  <1> HIDE DEF S
  <1>2. Agrees(buildDecision(ctx, action), Reference(S, q, m))
    BY <1>1, DecisionAgrees DEF S
  <1>3. d.pc = "done" /\ d.request = q /\ d.error = error /\ d.decision = buildDecision(ctx, action)
    BY DoneFields
  <1> HIDE DEF d
  <1>4. Explained(d, seen, m)
    BY <1>2, <1>3 DEF Explained, S
  <1>5. EvalOK(d, seen, m)
    BY <1>3, <1>4 DEF EvalOK
  <1> QED
    BY <1>5 DEF d

(* The rule at hand, once its condition is decided: the context tells of   *)
(* it too; when it ends the evaluation, it is the last to be reached; and  *)
(* otherwise the evaluation goes on behind it.                             *)
RuleMeans(ev, ps, m, D, x, ctx) ==
    /\ Tells(ctx, Fired(D \cup {x}, ev.request, m))
    /\ Ends(x, ev.request, m) => Reached(ToSet(ps), ev.request, m) = D \cup {x}
    /\ Result(x, ev.request, m) # "error" => (ctx.stopped <=> Ends(x, ev.request, m))
    /\ \A y \in D : Result(y, ev.request, m) # "error"
    /\ ~Ends(x, ev.request, m) => /\ Position("rule", ev.rest, Tail(ev.rules), ps)
                                  /\ Passed(LeftOf("rule", ev.rest, Tail(ev.rules)), ps, ev.request, m, ctx)

(* This is so for every rule that is evaluated. *)
LEMMA RuleTells ==
    ASSUME NEW ev, NEW ps, ListOK(ps), NEW m, Underway(ev, ps, m), ev.pc = "rule", ev.rules # <<>>,
           NEW D, D = Pairs(ToSet(ps)) \ LeftOf("rule", ev.rest, ev.rules),
           NEW x, x = <<Head(ev.rest), Head(ev.rules)>>,
           NEW seen, Tells(seen, Fired(D, ev.request, m)),
           NEW ctx, ctx = IF Result(x, ev.request, m) = "yes" THEN Execute(seen, x[2].actions) ELSE seen
    PROVE  RuleMeans(ev, ps, m, D, x, ctx)
  <1> DEFINE q == ev.request
             S == ToSet(ps)
             left == LeftOf("rule", ev.rest, ev.rules)
             then == LeftOf("rule", ev.rest, Tail(ev.rules))
  <1>1. Position("rule", ev.rest, ev.rules, ps) /\ Passed(left, ps, q, m, ev.ctx)
    BY DEF Underway
  <1>2. /\ x \in left /\ left \subseteq Pairs(S) /\ PairOK(x) /\ Position("rule", ev.rest, Tail(ev.rules), ps)
        /\ then = left \ {x} /\ \A y \in left : y # x => PairBefore(x, y)
    BY <1>1, RuleLeaves
  <1>3. /\ D = Pairs(S) \ left
        /\ \A y \in D : ~Ends(y, q, m) /\ \A z \in left : PairBefore(y, z)
    BY <1>1 DEF Passed
  <1>4. \A y \in S : PolicyOK(y)
    BY DEF ListOK
  <1> HIDE DEF q, S, left, then
  <1>5. \A y, z \in Pairs(S) : PairBefore(y, z) => ~PairBefore(z, y)
    BY <1>4, PairsOf, PairsOneWay
  <1>6. x \in Pairs(S) /\ D \in SUBSET Pairs(S) /\ x \notin D /\ Pairs(S) \ D = left /\ ~PairBefore(x, x)
    BY <1>2, <1>3, <1>5
  <1>7. Tells(ctx, Fired(D \cup {x}, q, m))
    <2>1. CASE Result(x, q, m) = "yes"
      <3> DEFINE F == Fired(D, q, m)
      <3>1. Fired(D \cup {x}, q, m) = F \cup {x}
        BY <2>1 DEF Fired
      <3>2. \A y \in F : PairBefore(y, x) /\ ~PairBefore(x, y)
        BY <1>2, <1>3, <1>5, <1>6 DEF Fired
      <3>3. Tells(seen, F) /\ ctx = Execute(seen, x[2].actions)
        BY <2>1 DEF q
      <3>4. IsSeq(x[2].actions)
        BY <1>2 DEF PairOK, RuleOK
      <3> HIDE DEF F
      <3>5. Tells(Execute(seen, x[2].actions), F \cup {x})
        BY <1>6, <3>2, <3>3, <3>4, RuleFires
      <3> QED
        BY <3>1, <3>3, <3>5
    <2>2. CASE Result(x, q, m) # "yes"
      <3>1. Fired(D \cup {x}, q, m) = Fired(D, q, m)
        BY <2>2 DEF Fired
      <3>2. Tells(seen, Fired(D, q, m)) /\ ctx = seen
        BY <2>2 DEF q
      <3> QED
        BY <3>1, <3>2
    <2> QED
      BY <2>1, <2>2
  <1>8. Ends(x, q, m) => Reached(S, q, m) = D \cup {x}
    BY <1>2, <1>3, <1>4, <1>6, ReachedSoFar
  <1>9. \A y \in D : Result(y, q, m) # "error"
    BY <1>3 DEF Ends
  <1>10. Result(x, q, m) # "error" => (ctx.stopped <=> Ends(x, q, m))
    <2>1. ctx.stopped <=> \E y \in Fired(D \cup {x}, q, m) : Types(y[2]) \cap {"allow", "deny"} # {}
      BY <1>7 DEF Tells
    <2>2. \A y \in Fired(D \cup {x}, q, m) : Result(y, q, m) = "yes" /\ (y \in D \/ y = x)
      BY DEF Fired
    <2>3. \A y \in D : Result(y, q, m) = "yes" => Types(y[2]) \cap {"allow", "deny"} = {}
      BY <1>3 DEF Ends
    <2>4. Result(x, q, m) = "yes" => x \in Fired(D \cup {x}, q, m)
      BY DEF Fired
    <2> QED
      BY <2>1, <2>2, <2>3, <2>4 DEF Ends
  <1>11. ASSUME ~Ends(x, q, m) PROVE Passed(then, ps, q, m, ctx)
    <2>1. Pairs(S) \ then = D \cup {x}
      BY <1>2, <1>6
    <2>2. \A y \in D \cup {x} : ~Ends(y, q, m)
      BY <1>3, <1>11
    <2>3. \A y \in D \cup {x} : \A z \in then : PairBefore(y, z)
      BY <1>2, <1>3
    <2> QED
      BY <1>7, <2>1, <2>2, <2>3 DEF Passed, S
  <1> QED
    BY <1>2, <1>7, <1>8, <1>9, <1>10, <1>11 DEF q, S, left, then, RuleMeans

(* A rule, as RuleOutcome has it. *)
LEMMA RuleStep ==
    ASSUME mode \in Modes, NEW ev, NEW ps, ListOK(ps), NEW seen, ps \in seen, Underway(ev, ps, mode),
           ev.pc = "rule", ev.rules # <<>>
    PROVE  EvalOK(RuleOutcome(ev), seen, mode)
  <1> DEFINE q == ev.request
             S == ToSet(ps)
             p == Head(ev.rest)
             r == Head(ev.rules)
             x == <<p, r>>
             D == Pairs(S) \ LeftOf("rule", ev.rest, ev.rules)
             old == Recorded(ev.ctx, p, r)
             res == Result(x, q, mode)
             ctx == IF res = "yes" THEN Execute(old, x[2].actions) ELSE old
  <1>1. Tells(old, Fired(D, q, mode))
    <2>1. Tells(ev.ctx, Fired(D, q, mode))
      BY DEF Underway, Passed
    <2> HIDE DEF D, q, p, r
    <2> QED
      BY <2>1, RecordedTells
  <1>2. RuleOutcome(ev) = IF res = "error" THEN Failed(ev, old, "condition") ELSE AfterRule(ev, ctx)
    <2>1. x[1] = p /\ x[2] = r
      OBVIOUS
    <2> HIDE DEF x
    <2> QED
      BY <2>1 DEF RuleOutcome, Result
  <1>3. /\ Tells(ctx, Fired(D \cup {x}, q, mode))
        /\ Ends(x, q, mode) => Reached(S, q, mode) = D \cup {x}
        /\ res # "error" => (ctx.stopped <=> Ends(x, q, mode))
        /\ \A y \in D : Result(y, q, mode) # "error"
        /\ ~Ends(x, q, mode) => /\ Position("rule", ev.rest, Tail(ev.rules), ps)
                                /\ Passed(LeftOf("rule", ev.rest, Tail(ev.rules)), ps, q, mode, ctx)
    <2> HIDE DEF D, x, old, ctx
    <2>1. D = Pairs(ToSet(ps)) \ LeftOf("rule", ev.rest, ev.rules) /\ x = <<Head(ev.rest), Head(ev.rules)>>
      BY DEF D, x
    <2>2. ctx = IF Result(x, ev.request, mode) = "yes" THEN Execute(old, x[2].actions) ELSE old
      BY DEF ctx
    <2>3. RuleMeans(ev, ps, mode, D, x, ctx)
      BY <1>1, <2>1, <2>2, RuleTells
    <2> QED
      BY <2>3 DEF RuleMeans, S
  <1> HIDE DEF S, x, D, old, ctx
  <1>4. CASE res = "error"
    <2>1. ctx = old /\ Ends(x, q, mode)
      BY <1>4 DEF ctx, Ends
    <2>2. Reached(S, q, mode) = D \cup {x}
      BY <1>3, <2>1
    <2>3. \E y \in Reached(S, q, mode) : Result(y, q, mode) = "error"
      BY <1>4, <2>2
    <2>4. Tells(old, Fired(Reached(S, q, mode), q, mode))
      BY <1>3, <2>1, <2>2
    <2> DEFINE action == FailSafeAction
    <2>5. action = IF \E y \in Reached(S, q, mode) : Result(y, q, mode) = "error" THEN FailSafeFor(mode) ELSE ActionOf(old)
      BY <2>3, FailSafeIs
    <2> HIDE DEF action
    <2>6. EvalOK(Done(q, old, action, "condition"), seen, mode)
      <3> HIDE DEF q
      <3> QED
        BY <2>4, <2>5, DoneExplained DEF S
    <2> QED
      BY <1>2, <1>4, <2>6 DEF Failed, action
  <1>5. CASE res # "error" /\ ctx.stopped
    <2>1. Ends(x, q, mode) /\ Reached(S, q, mode) = D \cup {x}
      BY <1>3, <1>5
    <2>2. ~\E y \in Reached(S, q, mode) : Result(y, q, mode) = "error"
      BY <1>3, <1>5, <2>1
    <2>3. Tells(ctx, Fired(Reached(S, q, mode), q, mode))
      BY <1>3, <2>1
    <2> DEFINE action == ActionOf(ctx)
    <2>4. action = IF \E y \in Reached(S, q, mode) : Result(y, q, mode) = "error" THEN FailSafeFor(mode) ELSE ActionOf(ctx)
      BY <2>2
    <2> HIDE DEF action
    <2>5. None # "timeout"
      BY DEF None
    <2>6. EvalOK(Done(q, ctx, action, None), seen, mode)
      <3> HIDE DEF q
      <3> QED
        BY <2>3, <2>4, <2>5, DoneExplained DEF S
    <2> QED
      BY <1>2, <1>5, <2>6 DEF AfterRule, action
  <1>6. CASE res # "error" /\ ~ctx.stopped
    <2> DEFINE rules == Tail(ev.rules)
               new == Running(ev.pc, ev.request, ev.rest, rules, ctx)
    <2>1. ev = Running(ev.pc, ev.request, ev.rest, ev.rules, ev.ctx)
      BY DEF Underway
    <2>2. [ev EXCEPT !.rules = rules, !.ctx = ctx] = new
      <3> DEFINE d == Running(ev.pc, ev.request, ev.rest, rules, ev.ctx)
      <3> HIDE DEF rules
      <3>1. [ev EXCEPT !.rules = rules] = d
        BY <2>1, RunningChanges
      <3>2. [ev EXCEPT !.rules = rules, !.ctx = ctx] = [[ev EXCEPT !.rules = rules] EXCEPT !.ctx = ctx]
        OBVIOUS
      <3>3. d.pc = ev.pc /\ d.request = ev.request /\ d.rest = ev.rest /\ d.rules = rules /\ d.ctx = ev.ctx
        BY RunningFields
      <3>4. d = Running(d.pc, d.request, d.rest, d.rules, d.ctx)
        BY <3>3
      <3> HIDE DEF d
      <3>5. [d EXCEPT !.ctx = ctx] = Running(d.pc, d.request, d.rest, d.rules, ctx)
        BY <3>4, RunningChanges
      <3> QED
        BY <3>1, <3>2, <3>3, <3>5
    <2>3. RuleOutcome(ev) = new
      BY <1>2, <1>6, <2>2 DEF AfterRule
    <2>4. new.pc = "rule" /\ new.request = q /\ new.rest = ev.rest /\ new.rules = rules /\ new.ctx = ctx
      BY RunningFields
    <2>5. Position("rule", ev.rest, rules, ps) /\ Passed(LeftOf("rule", ev.rest, rules), ps, q, mode, ctx)
      BY <1>3, <1>6
    <2>6. new = Running(new.pc, new.request, new.rest, new.rules, new.ctx)
      BY <2>4
    <2> HIDE DEF new, rules
    <2>7. Underway(new, ps, mode)
      BY <2>4, <2>5, <2>6 DEF Underway
    <2> QED
      BY <2>3, <2>7 DEF EvalOK
  <1> QED
    BY <1>4, <1>5, <1>6

-----------------------------------------------------------------------------
(* a policy, and the beginning. *)

(* The next policy, or the end of the loop. *)
LEMMA PolicyStep ==
    ASSUME mode \in Modes, NEW ev, NEW ps, ListOK(ps), NEW seen, ps \in seen, Underway(ev, ps, mode), ev.pc = "policy"
    PROVE  EvalOK(IF ev.rest = <<>> THEN Done(ev.request, ev.ctx, ActionOf(ev.ctx), None)
                  ELSE [ev EXCEPT !.pc = "rule", !.rules = EnabledRules(Head(ev.rest))], seen, mode)
  <1> DEFINE q == ev.request
             S == ToSet(ps)
             left == LeftOf("policy", ev.rest, ev.rules)
             rules == EnabledRules(Head(ev.rest))
             next == [ev EXCEPT !.pc = "rule", !.rules = rules]
             last == Done(q, ev.ctx, ActionOf(ev.ctx), None)
  <1>1. /\ Position("policy", ev.rest, ev.rules, ps) /\ Passed(left, ps, q, mode, ev.ctx)
        /\ ev = Running(ev.pc, ev.request, ev.rest, ev.rules, ev.ctx)
    BY DEF Underway
  <1>2. CASE ev.rest = <<>>
    <2>1. left = {}
      BY <1>2, NothingInEmpty DEF LeftOf, Pairs
    <2> HIDE DEF left, q, S
    <2>2. Pairs(S) \ left = Pairs(S)
      BY <2>1
    <2>3. (\A y \in Pairs(S) : ~Ends(y, q, mode)) /\ Tells(ev.ctx, Fired(Pairs(S), q, mode))
      BY <1>1, <2>2 DEF Passed, S
    <2>4. Reached(S, q, mode) = Pairs(S)
      BY <2>3, ReachedAll
    <2>5. ~\E y \in Reached(S, q, mode) : Result(y, q, mode) = "error"
      BY <2>3, <2>4 DEF Ends
    <2> DEFINE action == ActionOf(ev.ctx)
               ctx == ev.ctx
    <2>6. action = IF \E y \in Reached(S, q, mode) : Result(y, q, mode) = "error" THEN FailSafeFor(mode) ELSE ActionOf(ctx)
      BY <2>5
    <2>7. Tells(ctx, Fired(Reached(S, q, mode), q, mode)) /\ None # "timeout"
      BY <2>3, <2>4 DEF None
    <2> HIDE DEF action, ctx
    <2>8. EvalOK(Done(q, ctx, action, None), seen, mode)
      BY <2>6, <2>7, DoneExplained DEF S
    <2> QED
      BY <1>2, <2>8 DEF q, ctx, action
  <1>3. CASE ev.rest # <<>>
    <2> DEFINE rule == "rule"
               new == Running(rule, ev.request, ev.rest, rules, ev.ctx)
    <2>1. Position("rule", ev.rest, rules, ps) /\ LeftOf("rule", ev.rest, rules) = left
      BY <1>1, <1>3, PolicyBegins
    <2>2. next = new
      <3> DEFINE d == Running(rule, ev.request, ev.rest, ev.rules, ev.ctx)
      <3>0. next = [ev EXCEPT !.pc = rule, !.rules = rules]
        OBVIOUS
      <3> HIDE DEF rules, rule, next
      <3>1. [ev EXCEPT !.pc = rule] = d
        BY <1>1, RunningChanges
      <3>2. [ev EXCEPT !.pc = rule, !.rules = rules] = [[ev EXCEPT !.pc = rule] EXCEPT !.rules = rules]
        OBVIOUS
      <3>3. d.pc = rule /\ d.request = ev.request /\ d.rest = ev.rest /\ d.rules = ev.rules /\ d.ctx = ev.ctx
        BY RunningFields
      <3>4. d = Running(d.pc, d.request, d.rest, d.rules, d.ctx)
        BY <3>3
      <3> HIDE DEF d
      <3>5. [d EXCEPT !.rules = rules] = Running(d.pc, d.request, d.rest, rules, d.ctx)
        BY <3>4, RunningChanges
      <3> QED
        BY <3>0, <3>1, <3>2, <3>3, <3>5
    <2> HIDE DEF rules, next
    <2>3. new.pc = "rule" /\ new.request = q /\ new.rest = ev.rest /\ new.rules = rules /\ new.ctx = ev.ctx
      BY RunningFields
    <2>4. new = Running(new.pc, new.request, new.rest, new.rules, new.ctx)
      BY <2>3
    <2> HIDE DEF new, left
    <2>5. Underway(new, ps, mode)
      BY <1>1, <2>1, <2>3, <2>4 DEF Underway
    <2>6. EvalOK(next, seen, mode)
      BY <2>2, <2>5 DEF EvalOK
    <2> QED
      BY <1>3, <2>6 DEF next, rules
  <1> QED
    BY <1>2, <1>3

(* The end of a policy. *)
LEMMA EndPolicyStep ==
    ASSUME NEW ev, NEW ps, ListOK(ps), NEW seen, ps \in seen, NEW m, Underway(ev, ps, m), ev.pc = "rule", ev.rules = <<>>
    PROVE  EvalOK([ev EXCEPT !.pc = "policy", !.rest = Tail(ev.rest)], seen, m)
  <1> DEFINE q == ev.request
             left == LeftOf("rule", ev.rest, ev.rules)
             rest == Tail(ev.rest)
             pol == "policy"
             new == Running(pol, ev.request, rest, ev.rules, ev.ctx)
             next == [ev EXCEPT !.pc = pol, !.rest = rest]
  <1>1. /\ Position("rule", ev.rest, ev.rules, ps) /\ Passed(left, ps, q, m, ev.ctx)
        /\ ev = Running(ev.pc, ev.request, ev.rest, ev.rules, ev.ctx)
    BY DEF Underway
  <1>2. Position("policy", rest, ev.rules, ps) /\ LeftOf("policy", rest, ev.rules) = left
    BY <1>1, PolicyEnds
  <1>3. next = new
    <2> DEFINE d == Running(pol, ev.request, ev.rest, ev.rules, ev.ctx)
    <2>0. next = [ev EXCEPT !.pc = pol, !.rest = rest]
      OBVIOUS
    <2> HIDE DEF rest, pol, next
    <2>1. [ev EXCEPT !.pc = pol] = d
      BY <1>1, RunningChanges
    <2>2. [ev EXCEPT !.pc = pol, !.rest = rest] = [[ev EXCEPT !.pc = pol] EXCEPT !.rest = rest]
      OBVIOUS
    <2>3. d.pc = pol /\ d.request = ev.request /\ d.rest = ev.rest /\ d.rules = ev.rules /\ d.ctx = ev.ctx
      BY RunningFields
    <2>4. d = Running(d.pc, d.request, d.rest, d.rules, d.ctx)
      BY <2>3
    <2> HIDE DEF d
    <2>5. [d EXCEPT !.rest = rest] = Running(d.pc, d.request, rest, d.rules, d.ctx)
      BY <2>4, RunningChanges
    <2> QED
      BY <2>0, <2>1, <2>2, <2>3, <2>5
  <1> HIDE DEF rest, next
  <1>4. new.pc = "policy" /\ new.request = q /\ new.rest = rest /\ new.rules = ev.rules /\ new.ctx = ev.ctx
    BY RunningFields
  <1>5. new = Running(new.pc, new.request, new.rest, new.rules, new.ctx)
    BY <1>4
  <1> HIDE DEF new, left
  <1>6. Underway(new, ps, m)
    BY <1>1, <1>2, <1>4, <1>5 DEF Underway
  <1>7. EvalOK(next, seen, m)
    BY <1>3, <1>6 DEF EvalOK
  <1> QED
    BY <1>7 DEF next, rest

(* An evaluation begins. *)
LEMMA EvaluateStep ==
    ASSUME NEW ps, ListOK(ps), NEW q, NEW m
    PROVE  EvalOK(IF ps = <<>> THEN Done(q, NewContext, ActionOf(NewContext), None)
                  ELSE [pc |-> "policy", request |-> q, rest |-> ps, rules |-> <<>>, ctx |-> NewContext], {ps}, m)
  <1> DEFINE S == ToSet(ps)
             ctx == NewContext
             action == ActionOf(ctx)
             new == Running("policy", q, ps, <<>>, ctx)
  <1>1. CASE ps = <<>>
    <2>1. Pairs(S) = {}
      BY <1>1, NothingInEmpty DEF Pairs
    <2> HIDE DEF S
    <2>2. Reached(S, q, m) = {}
      BY <2>1, ReachedAll
    <2>3. Fired({}, q, m) = {} /\ None # "timeout"
      BY DEF Fired, None
    <2>4. Tells(ctx, Fired(Reached(S, q, m), q, m))
      BY <2>2, <2>3, NewTells
    <2>5. action = IF \E y \in Reached(S, q, m) : Result(y, q, m) = "error" THEN FailSafeFor(m) ELSE ActionOf(ctx)
      BY <2>2
    <2> DEFINE seen == {ps}
    <2>6. ps \in seen
      OBVIOUS
    <2> HIDE DEF action, ctx, seen
    <2>7. EvalOK(Done(q, ctx, action, None), seen, m)
      BY <2>3, <2>4, <2>5, <2>6, DoneExplained DEF S
    <2> QED
      BY <1>1, <2>7 DEF seen, ctx, action
  <1>2. CASE ps # <<>>
    <2>1. new = [pc |-> "policy", request |-> q, rest |-> ps, rules |-> <<>>, ctx |-> NewContext]
      BY DEF Running
    <2>2. Position("policy", ps, <<>>, ps) /\ Passed(LeftOf("policy", ps, <<>>), ps, q, m, NewContext)
      BY EvaluationBegins
    <2>3. new.pc = "policy" /\ new.request = q /\ new.rest = ps /\ new.rules = <<>> /\ new.ctx = NewContext
      BY RunningFields
    <2>4. new = Running(new.pc, new.request, new.rest, new.rules, new.ctx)
      BY <2>3
    <2> HIDE DEF new
    <2>5. Underway(new, ps, m)
      BY <2>2, <2>3, <2>4 DEF Underway
    <2>6. EvalOK(new, {ps}, m)
      BY <2>5 DEF EvalOK
    <2> QED
      BY <1>2, <2>1, <2>6
  <1> QED
    BY <1>1, <1>2

(* What is explained stays so when more lists are installed. *)
LEMMA MoreInstalled ==
    ASSUME NEW ev, NEW seen, NEW more, NEW m, EvalOK(ev, seen, m), seen \subseteq more
    PROVE  EvalOK(ev, more, m)
  BY DEF EvalOK, Explained

-----------------------------------------------------------------------------
(* The engine: every list installed is in order. *)

(* Every file, and every file a reload has read, holds what it may. *)
Holds(got) == \A f \in DOMAIN got : f \in DOMAIN Contents /\ got[f] \in MayHold(f)
Holding == Holds(files) /\ \A w \in Reloaders : Holds(reload[w].got)

(* The installed policies are in order, and every evaluation has come from *)
(* policies installed since it began to where it is.                       *)
EvalInv ==
    /\ mode \in Modes /\ ListOK(policies)
    /\ eval = [e \in Evaluators |-> eval[e]] /\ installed = [e \in Evaluators |-> installed[e]]
    /\ \A e \in Evaluators : EvalOK(eval[e], installed[e], mode)

EngineInv == Holding /\ EvalInv

(* Each setup has fail-safe modes. *)
LEMMA SetupModes == \A s \in Setups : s.modes \subseteq Modes
  <1> SUFFICES ASSUME NEW s \in Setups
               PROVE  s.modes \subseteq Modes
    OBVIOUS
  <1> DEFINE t == [x \in DOMAIN s \ {"requests"} |-> s[x]]
  <1>1. t \in Setup
    BY EngineAssumptions DEF EngineAssumptions
  <1>2. t.modes \subseteq Modes /\ DOMAIN t = {"walk", "dir", "notifies", "callers", "modes", "edits", "calls"}
    BY <1>1 DEF Setup, Modes
  <1>3. "modes" \in DOMAIN s \ {"requests"}
    BY <1>2
  <1> QED
    BY <1>2, <1>3

(* What a load yields is a list in order. *)
LEMMA LoadedOK ==
    ASSUME NEW got, IsFiniteSet(DOMAIN got), Holds(got)
    PROVE  /\ ListOK(NormalizePolicyPriorities(Loaded(got)))
           /\ ToSet(NormalizePolicyPriorities(Loaded(got))) = {Sorted(p) : p \in Loaded(got)}
  <1> DEFINE S == {got[f] : f \in DOMAIN got}
             n == [f \in DOMAIN got |-> got[f]]
  <1>1. IsFiniteSet(S)
    <2>1. n \in Surjection(DOMAIN got, S)
      BY DEF Surjection
    <2> HIDE DEF n, S
    <2> QED
      BY <2>1, FS_Surjection
  <1>2. IsFiniteSet(Loaded(got))
    <2>1. Loaded(got) \in SUBSET S
      BY DEF Loaded
    <2> QED
      BY <1>1, <2>1, FS_Subset
  <1>3. Loaded(got) \subseteq Policies
    BY DEF Loaded
  <1>4. \A p \in Loaded(got) : \E f \in DOMAIN got : f \in DOMAIN Contents /\ p = got[f] /\ p \in Contents[f]
    BY EngineAssumptions DEF EngineAssumptions, Loaded, Holds, MayHold
  <1>5. \A p, q \in Loaded(got) : p.name = q.name => p = q
    <2> SUFFICES ASSUME NEW p \in Loaded(got), NEW q \in Loaded(got), p # q
                 PROVE  p.name # q.name
      OBVIOUS
    <2>1. PICK f \in DOMAIN got : f \in DOMAIN Contents /\ p = got[f] /\ p \in Contents[f]
      BY <1>4
    <2>2. PICK g \in DOMAIN got : g \in DOMAIN Contents /\ q = got[g] /\ q \in Contents[g]
      BY <1>4
    <2>3. f # g
      BY <2>1, <2>2
    <2> QED
      BY <2>1, <2>2, <2>3, PolicyAssumptions DEF PolicyAssumptions
  <1> DEFINE ps == Loaded(got)
  <1> HIDE DEF ps
  <1>6. ListOK(NormalizePolicyPriorities(ps)) /\ ToSet(NormalizePolicyPriorities(ps)) = {Sorted(p) : p \in ps}
    BY <1>2, <1>3, <1>5, NormalizedIsOK DEF ps
  <1> QED
    BY <1>6 DEF ps

(* The files of a walk are finitely many. *)
LEMMA FilesAreFinite ==
    ASSUME setup.walk \in Seq(DOMAIN Contents)
    PROVE  IsFiniteSet(Files)
  <1>1. IsSeq(setup.walk)
    BY WalkTypes DEF IsSeq
  <1> QED
    BY <1>1, SeqIsFinite DEF Files

(* The engine starts with a list in order and nothing to evaluate. *)
LEMMA InitEngine == Init => EngineInv
  <1> SUFFICES ASSUME Init PROVE EngineInv
    OBVIOUS
  <1>1. ReloadInv /\ setup.walk \in Seq(DOMAIN Contents) /\ DOMAIN files = Files /\ Files \subseteq DOMAIN Contents
    BY InitReload, SetupWalks, FilesExist DEF Init
  <1>2. Holds(files)
    BY <1>1 DEF Init, Holds
  <1>3. ListOK(policies)
    BY <1>1, <1>2, FilesAreFinite, LoadedOK DEF Init, Current
  <1>4. Holding
    <2>1. DOMAIN Idle.got = {}
      BY DEF Idle
    <2> QED
      BY <1>2, <2>1 DEF Init, Holding, Holds
  <1>5. mode \in Modes
    BY SetupModes DEF Init
  <1>6. \A e \in Evaluators : EvalOK(eval[e], installed[e], mode)
    BY DEF Init, EvalOK
  <1> QED
    BY <1>3, <1>4, <1>5, <1>6 DEF EngineInv, EvalInv, Init

-----------------------------------------------------------------------------
(* What the files and the reloads hold. *)
LEMMA StepHolding ==
    ASSUME ReloadInv, Holding, [Next]_vars
    PROVE  Holding'
  <1>1. /\ reload \in [Reloaders -> Reload] /\ setup.walk \in Seq(DOMAIN Contents) /\ files \in [Files -> Holdings]
        /\ Files \subseteq DOMAIN Contents /\ Watcher \in Reloaders
    BY FilesExist DEF ReloadInv, ReloadTypes, Reloaders
  <1>2. \A f \in Files : f \in DOMAIN Contents /\ files[f] \in MayHold(f)
    BY <1>1 DEF Holding, Holds
  <1>3. Holds(Idle.got) /\ Holds(Reading.got) /\ Holds(Exited.got) /\ Holds(ReloadFailed.got)
    BY DEF Holds, Idle, Reading, Exited, ReloadFailed
  <1>4. ASSUME NEW w \in Reloaders, NEW r, reload' = [reload EXCEPT ![w] = r], Holds(r.got), UNCHANGED files
        PROVE  Holding'
    <2>1. \A v \in Reloaders : reload'[v] = IF v = w THEN r ELSE reload[v]
      BY <1>1, <1>4
    <2> QED
      BY <1>4, <2>1 DEF Holding
  <1>5. CASE UNCHANGED <<files, reload>>
    BY <1>5 DEF Holding
  <1>6. ASSUME NEW w \in Reloaders, ReadFile(w)
        PROVE  Holding'
    <2> DEFINE f == Head(reload[w].todo)
               r == Taken(w, files[f])
    <2>1. reload[w].pc = "reading" /\ reload[w].todo # <<>> /\ Complete(reload[w])
      BY <1>1, <1>6 DEF ReadFile, ReloadInv, ReloadTypes
    <2>2. files[f] \in Holdings
      BY <1>1, <2>1 DEF Complete
    <2>3. Holds(r.got)
      BY <1>2, <2>1, <2>2, TakesAFile DEF TakenOK, Holding, Holds
    <2>4. reload' = [reload EXCEPT ![w] = IF LoadFails(files[f]) THEN ReloadFailed ELSE r] /\ UNCHANGED files
      BY <1>6 DEF ReadFile
    <2> HIDE DEF r, f
    <2> QED
      BY <1>3, <1>4, <2>3, <2>4
  <1>7. ASSUME NEW w \in Reloaders, Install(w)
        PROVE  Holding'
    BY <1>3, <1>4, <1>7 DEF Install
  <1>8. ASSUME NEW w \in Reloaders, CallReload(w) \/ LoadError(w)
        PROVE  Holding'
    BY <1>3, <1>4, <1>8 DEF CallReload, LoadError
  <1>9. CASE HandleEvent \/ WatcherExit
    BY <1>1, <1>3, <1>4, <1>9 DEF HandleEvent, WatcherExit
  <1>10. ASSUME NEW f \in Files, Edit(f)
         PROVE  Holding'
    <2>1. PICK c \in MayHold(f) : files' = [files EXCEPT ![f] = c]
      BY <1>10 DEF Edit
    <2>2. Holds(files')
      BY <1>1, <1>2, <2>1 DEF Holds
    <2>3. \A w \in Reloaders : reload'[w].got = reload[w].got
      <3> SUFFICES ASSUME NEW w \in Reloaders PROVE reload'[w].got = reload[w].got
        OBVIOUS
      <3>1. reload'[w] = [reload[w] EXCEPT !.current = FALSE] /\ reload[w] \in Reload
        BY <1>1, <1>10 DEF Edit
      <3> QED
        BY <3>1 DEF Reload
    <2> QED
      BY <2>2, <2>3 DEF Holding
  <1>11. ASSUME NEW w \in Reloaders, SkipFile(w)
         PROVE  Holding'
    <2> DEFINE t == Taken(w, Broken)
               r == [[t EXCEPT !.current = FALSE] EXCEPT !.failed = TRUE]
    <2>1. reload[w].pc = "reading" /\ reload[w].todo # <<>>
      BY <1>11 DEF SkipFile
    <2>2. t \in Reload /\ Holds(t.got)
      BY <1>2, <2>1, TakesAFile DEF TakenOK, Holding, Holds, Holdings, MayHold
    <2>3. reload' = [reload EXCEPT ![w] = r] /\ UNCHANGED files
      BY <1>11 DEF SkipFile
    <2> HIDE DEF t
    <2>4. r.got = t.got
      BY <2>2 DEF Reload
    <2> HIDE DEF r
    <2> QED
      BY <1>4, <2>2, <2>3, <2>4
  <1> QED
    BY <1>5, <1>6, <1>7, <1>8, <1>9, <1>10, <1>11
       DEF Next, EvalNext, Evaluate, NextPolicy, evaluateRule, EndPolicy, Timeout, Return, ReloadNext, Close, CloseReturn, vars

(* One evaluation moves on, and nothing is installed. *)
LEMMA EvaluationMoves ==
    ASSUME EvalInv, NEW e \in Evaluators, NEW ev, NEW seen, EvalOK(ev, seen, mode), eval' = [eval EXCEPT ![e] = ev],
           installed' = [installed EXCEPT ![e] = seen], UNCHANGED <<mode, policies>>
    PROVE  EvalInv'
  <1>1. \A d \in Evaluators : /\ eval'[d] = IF d = e THEN ev ELSE eval[d]
                              /\ installed'[d] = IF d = e THEN seen ELSE installed[d]
    BY DEF EvalInv
  <1>2. eval' = [d \in Evaluators |-> eval'[d]] /\ installed' = [d \in Evaluators |-> installed'[d]]
    BY DEF EvalInv
  <1>3. \A d \in Evaluators : EvalOK(eval'[d], installed'[d], mode)
    BY <1>1 DEF EvalInv
  <1> QED
    BY <1>2, <1>3 DEF EvalInv

(* The same when no more is noted as installed. *)
LEMMA EvaluationGoesOn ==
    ASSUME EvalInv, NEW e \in Evaluators, NEW ev, EvalOK(ev, installed[e], mode), eval' = [eval EXCEPT ![e] = ev],
           UNCHANGED <<mode, policies, installed>>
    PROVE  EvalInv'
  <1>1. installed' = [installed EXCEPT ![e] = installed[e]]
    BY DEF EvalInv
  <1> QED
    BY <1>1, EvaluationMoves

(* What the invariant says of an evaluation under way. *)
LEMMA OneEvaluation ==
    ASSUME EvalInv, NEW e \in Evaluators, eval[e].pc \in {"policy", "rule"}
    PROVE  \E ps \in installed[e] : ListOK(ps) /\ Underway(eval[e], ps, mode)
  BY DEF EvalInv, EvalOK

(* One step of an evaluation. *)
LEMMA StepEvaluation ==
    ASSUME EvalInv, NEW e \in Evaluators,
           \/ \E q \in setup.requests : Evaluate(e, q)
           \/ NextPolicy(e) \/ evaluateRule(e) \/ EndPolicy(e) \/ Timeout(e) \/ Return(e)
    PROVE  EvalInv'
  <1> DEFINE ev == eval[e]
             seen == installed[e]
  <1>1. mode \in Modes /\ ListOK(policies)
    BY DEF EvalInv
  <1>2. ASSUME NEW q, Evaluate(e, q)
        PROVE  EvalInv'
    <2> DEFINE new == IF policies = <<>> THEN Done(q, NewContext, ActionOf(NewContext), None)
                      ELSE [pc |-> "policy", request |-> q, rest |-> policies, rules |-> <<>>, ctx |-> NewContext]
    <2>1. EvalOK(new, {policies}, mode)
      BY <1>1, EvaluateStep
    <2>2. /\ eval' = [eval EXCEPT ![e] = new] /\ installed' = [installed EXCEPT ![e] = {policies}]
          /\ UNCHANGED <<mode, policies>>
      BY <1>2 DEF Evaluate
    <2> HIDE DEF new
    <2> QED
      BY <2>1, <2>2, EvaluationMoves
  <1>3. CASE NextPolicy(e)
    <2> DEFINE new == IF ev.rest = <<>> THEN Done(ev.request, ev.ctx, ActionOf(ev.ctx), None)
                      ELSE [ev EXCEPT !.pc = "rule", !.rules = EnabledRules(Head(ev.rest))]
    <2>1. ev.pc = "policy" /\ eval' = [eval EXCEPT ![e] = new] /\ UNCHANGED <<mode, policies, installed>>
      BY <1>3 DEF NextPolicy
    <2>2. PICK ps \in seen : ListOK(ps) /\ Underway(ev, ps, mode)
      BY <2>1, OneEvaluation
    <2> HIDE DEF ev, seen
    <2>3. EvalOK(new, seen, mode)
      BY <1>1, <2>1, <2>2, PolicyStep
    <2> HIDE DEF new
    <2> QED
      BY <2>1, <2>3, EvaluationGoesOn DEF seen
  <1>4. CASE evaluateRule(e)
    <2> DEFINE new == RuleOutcome(ev)
    <2>1. /\ ev.pc = "rule" /\ ev.rules # <<>> /\ eval' = [eval EXCEPT ![e] = new]
          /\ UNCHANGED <<mode, policies, installed>>
      BY <1>4 DEF evaluateRule
    <2>2. PICK ps \in seen : ListOK(ps) /\ Underway(ev, ps, mode)
      BY <2>1, OneEvaluation
    <2> HIDE DEF ev, seen
    <2>3. EvalOK(new, seen, mode)
      BY <1>1, <2>1, <2>2, RuleStep
    <2> HIDE DEF new
    <2> QED
      BY <2>1, <2>3, EvaluationGoesOn DEF seen
  <1>5. CASE EndPolicy(e)
    <2> DEFINE new == [ev EXCEPT !.pc = "policy", !.rest = Tail(ev.rest)]
    <2>1. /\ ev.pc = "rule" /\ ev.rules = <<>> /\ eval' = [eval EXCEPT ![e] = new]
          /\ UNCHANGED <<mode, policies, installed>>
      BY <1>5 DEF EndPolicy
    <2>2. PICK ps \in seen : ListOK(ps) /\ Underway(ev, ps, mode)
      BY <2>1, OneEvaluation
    <2> HIDE DEF ev, seen
    <2>3. EvalOK(new, seen, mode)
      BY <2>1, <2>2, EndPolicyStep
    <2> HIDE DEF new
    <2> QED
      BY <2>1, <2>3, EvaluationGoesOn DEF seen
  <1>6. CASE Timeout(e)
    <2> DEFINE new == Failed(ev, ev.ctx, "timeout")
    <2>1. eval' = [eval EXCEPT ![e] = new] /\ UNCHANGED <<mode, policies, installed>>
      BY <1>6 DEF Timeout, EvalInv
    <2>2. EvalOK(new, seen, mode)
      BY <1>1, TimeoutExplained
    <2> HIDE DEF new
    <2> QED
      BY <2>1, <2>2, EvaluationGoesOn
  <1>7. CASE Return(e)
    <2> DEFINE new == [pc |-> "idle"]
    <2>1. eval' = [eval EXCEPT ![e] = new] /\ installed' = [installed EXCEPT ![e] = {}] /\ UNCHANGED <<mode, policies>>
      BY <1>7 DEF Return
    <2>2. EvalOK(new, {}, mode)
      BY DEF EvalOK
    <2> HIDE DEF new
    <2> QED
      BY <2>1, <2>2, EvaluationMoves
  <1> QED
    BY <1>2, <1>3, <1>4, <1>5, <1>6, <1>7

(* What a reload installs is a list in order, and evaluations under way    *)
(* keep the list they began with.                                          *)
LEMMA StepInstall ==
    ASSUME ReloadInv, EngineInv, NEW w \in Reloaders, Install(w)
    PROVE  EvalInv'
  <1> DEFINE got == reload[w].got
             new == NormalizePolicyPriorities(Loaded(got))
  <1>1. UNCHANGED <<mode, eval>> /\ EvalInv /\ Holds(got)
    BY DEF Install, EngineInv, Holding
  <1>2. IsFiniteSet(DOMAIN got)
    <2>1. DOMAIN got = Files /\ setup.walk \in Seq(DOMAIN Contents)
      BY NothingInEmpty DEF Install, ReloadInv, ReloadTypes, Complete
    <2> QED
      BY <2>1, FilesAreFinite
  <1>3. ListOK(new)
    BY <1>1, <1>2, LoadedOK
  <1>4. CASE ValidPolicies(Loaded(got))
    <2>1. policies' = new /\ installed' = [e \in Evaluators |-> installed[e] \cup {new}]
      BY <1>4 DEF Install
    <2> HIDE DEF new
    <2>2. installed' = [e \in Evaluators |-> installed'[e]] /\ \A e \in Evaluators : installed[e] \subseteq installed'[e]
      BY <2>1
    <2>3. \A e \in Evaluators : EvalOK(eval[e], installed'[e], mode)
      BY <1>1, <2>2, MoreInstalled DEF EvalInv
    <2> QED
      BY <1>1, <1>3, <2>1, <2>2, <2>3 DEF EvalInv
  <1>5. CASE ~ValidPolicies(Loaded(got))
    <2>1. UNCHANGED <<policies, installed>>
      BY <1>5 DEF Install
    <2> QED
      BY <1>1, <2>1, ZenonT(60) DEF EvalInv
  <1> QED
    BY <1>4, <1>5

(* Every step keeps the invariant. *)
LEMMA StepEngine ==
    ASSUME ReloadInv, EngineInv, [Next]_vars
    PROVE  EngineInv'
  <1>1. Holding'
    BY StepHolding DEF EngineInv
  <1> SUFFICES EvalInv'
    BY <1>1 DEF EngineInv
  <1>2. CASE EvalNext
    BY <1>2, StepEvaluation DEF EvalNext, EngineInv
  <1>3. CASE UNCHANGED <<mode, policies, eval, installed>>
    BY <1>3, ZenonT(60) DEF EngineInv, EvalInv
  <1> QED
    BY <1>2, <1>3, StepInstall
       DEF Next, ReloadNext, CallReload, ReadFile, SkipFile, LoadError, HandleEvent, WatcherExit, Close, CloseReturn, Edit,
           vars

(* The invariant holds. *)
THEOREM EngineInvariance == Spec => []EngineInv
  BY InitEngine, StepEngine, ReloadInvariance, PTL DEF Spec

(* evaluatePolicies decides what one set of policies says that was         *)
(* installed during the call, whatever is reloaded meanwhile, and a        *)
(* deadline that passes leads to the fail-safe action.                     *)
THEOREM DecisionsAreExplained == Spec => []DecisionIsExplained
  <1>1. EngineInv => DecisionIsExplained
    <2> SUFFICES ASSUME EngineInv, NEW e \in Evaluators, eval[e].pc = "done"
                 PROVE  LET d == eval[e].decision IN
                        IF eval[e].error = "timeout"
                          THEN d.action = (CASE mode = "fail-open" -> "allow" [] mode = "fail-closed" -> "block"
                                             [] OTHER -> DefaultAction)
                          ELSE \E ps \in installed[e] : LET ref == Reference(ToSet(ps), eval[e].request, mode) IN
                                 d.action = ref.action /\ d.effects = ref.effects /\ d.route = ref.route
      BY DEF DecisionIsExplained
    <2>1. Explained(eval[e], installed[e], mode) /\ mode \in Modes
      BY DEF EngineInv, EvalInv, EvalOK, Underway
    <2>2. FailSafeFor(mode) = (CASE mode = "fail-open" -> "allow" [] mode = "fail-closed" -> "block" [] OTHER -> DefaultAction)
      BY <2>1 DEF FailSafeFor, Modes
    <2> QED
      BY <2>1, <2>2 DEF Explained, Agrees
  <1> QED
    BY <1>1, EngineInvariance, PTL

-----------------------------------------------------------------------------
(* What a reload installs stood in the files while it read them.           *)

(* While a reload reads, its history has what every file holds and what it *)
(* has read.                                                               *)
Observed(h, got, fs) ==
    /\ h = [f \in Files |-> h[f]]
    /\ \A f \in Files : fs[f] \in h[f] /\ (f \in DOMAIN got => got[f] \in h[f])
HeldInv ==
    /\ held = [w \in Reloaders |-> held[w]]
    /\ \A w \in Reloaders : reload[w].pc = "reading" => Observed(held[w], reload[w].got, files)

(* One reloader moves on. *)
LEMMA HistoryMoves ==
    ASSUME HeldInv, reload \in [Reloaders -> Reload], NEW w \in Reloaders, NEW r, NEW h,
           reload' = [reload EXCEPT ![w] = r], held' = [held EXCEPT ![w] = h], UNCHANGED <<setup, files>>,
           r.pc = "reading" => Observed(h, r.got, files)
    PROVE  HeldInv'
  <1>1. held = [v \in Reloaders |-> held[v]]
    BY DEF HeldInv
  <1>2. \A v \in Reloaders : held'[v] = IF v = w THEN h ELSE held[v]
    BY <1>1
  <1>3. \A v \in Reloaders : reload'[v] = IF v = w THEN r ELSE reload[v]
    OBVIOUS
  <1>4. held' = [v \in Reloaders |-> held'[v]] /\ Files' = Files
    BY DEF HeldInv, Files
  <1>5. \A v \in Reloaders : reload'[v].pc = "reading" => Observed(held'[v], reload'[v].got, files)
    BY <1>2, <1>3 DEF HeldInv
  <1> QED
    BY <1>4, <1>5 DEF HeldInv, Observed

(* The same when its history stays as it is. *)
LEMMA HistoryStays ==
    ASSUME HeldInv, reload \in [Reloaders -> Reload], NEW w \in Reloaders, NEW r,
           reload' = [reload EXCEPT ![w] = r], UNCHANGED <<setup, files, held>>,
           r.pc = "reading" => Observed(held[w], r.got, files)
    PROVE  HeldInv'
  <1>1. held' = [held EXCEPT ![w] = held[w]]
    BY DEF HeldInv
  <1> QED
    BY <1>1, HistoryMoves

(* Every step keeps the history. *)
LEMMA StepHeld ==
    ASSUME ReloadInv, HeldInv, [Next]_vars
    PROVE  HeldInv'
  <1>1. /\ reload \in [Reloaders -> Reload] /\ setup.walk \in Seq(DOMAIN Contents) /\ files \in [Files -> Holdings]
        /\ Watcher \in Reloaders
    BY DEF ReloadInv, ReloadTypes, Reloaders
  <1>2. /\ ReloadFailed.pc # "reading" /\ Idle.pc # "reading" /\ Exited.pc # "reading"
        /\ Reading.pc = "reading" /\ DOMAIN Reading.got = {}
    BY <1>1, Constants
  <1>3. ASSUME NEW w \in Reloaders, reload' = [reload EXCEPT ![w] = Reading], Observe(w), UNCHANGED <<setup, files>>
        PROVE  HeldInv'
    <2> DEFINE h == [f \in Files |-> {files[f]}]
    <2>1. Observed(h, Reading.got, files)
      BY <1>2 DEF Observed
    <2>2. held' = [held EXCEPT ![w] = h]
      BY <1>3 DEF Observe
    <2> HIDE DEF h
    <2> QED
      BY <1>1, <1>3, <2>1, <2>2, HistoryMoves
  <1>4. ASSUME NEW w \in Reloaders, NEW r, r.pc # "reading", reload' = [reload EXCEPT ![w] = r], Forget(w),
               UNCHANGED <<setup, files>>
        PROVE  HeldInv'
    BY <1>1, <1>4, HistoryMoves DEF Forget
  <1>5. ASSUME NEW w \in Reloaders, ReadFile(w)
        PROVE  HeldInv'
    <2> DEFINE f == Head(reload[w].todo)
               r == Taken(w, files[f])
    <2>1. /\ reload[w].pc = "reading" /\ reload[w].todo # <<>> /\ Complete(reload[w])
          /\ UNCHANGED <<setup, files>>
      BY <1>1, <1>5 DEF ReadFile, ReloadInv, ReloadTypes
    <2>2. files[f] \in Holdings
      BY <1>1, <2>1 DEF Complete
    <2>3. CASE LoadFails(files[f])
      BY <1>2, <1>4, <1>5, <2>1, <2>3 DEF ReadFile
    <2>4. CASE ~LoadFails(files[f])
      <3>1. reload' = [reload EXCEPT ![w] = r] /\ UNCHANGED held
        BY <1>5, <2>4 DEF ReadFile
      <3>2. \A h \in DOMAIN r.got : (h = f /\ r.got[h] = files[f]) \/ (h \in DOMAIN reload[w].got /\ r.got[h] = reload[w].got[h])
        BY <2>1, <2>2, TakesAFile DEF TakenOK
      <3> HIDE DEF r, f
      <3>3. Observed(held[w], r.got, files)
        BY <2>1, <3>2 DEF HeldInv, Observed
      <3> QED
        BY <1>1, <2>1, <3>1, <3>3, HistoryStays
    <2> QED
      BY <2>3, <2>4
  <1>6. ASSUME NEW w \in Reloaders, SkipFile(w)
        PROVE  HeldInv'
    <2> DEFINE f == Head(reload[w].todo)
               t == Taken(w, Broken)
               r == [[t EXCEPT !.current = FALSE] EXCEPT !.failed = TRUE]
               h == [held[w] EXCEPT ![f] = @ \cup {Broken}]
    <2>1. reload[w].pc = "reading" /\ reload[w].todo # <<>> /\ UNCHANGED <<setup, files>>
      BY <1>6 DEF SkipFile
    <2>2. reload' = [reload EXCEPT ![w] = r] /\ held' = [held EXCEPT ![w] = h]
      BY <1>6 DEF SkipFile
    <2>3. /\ t \in Reload /\ f \in Files
          /\ \A g \in DOMAIN t.got : (g = f /\ t.got[g] = Broken) \/ (g \in DOMAIN reload[w].got /\ t.got[g] = reload[w].got[g])
      BY <2>1, TakesAFile DEF TakenOK, Holdings
    <2> HIDE DEF t, f
    <2>4. r.got = t.got
      BY <2>3 DEF Reload
    <2> HIDE DEF r
    <2>5. Observed(held[w], reload[w].got, files)
      BY <2>1 DEF HeldInv
    <2>6. h = [g \in Files |-> h[g]] /\ \A g \in Files : h[g] = IF g = f THEN held[w][g] \cup {Broken} ELSE held[w][g]
      BY <2>3, <2>5 DEF Observed
    <2> HIDE DEF h
    <2>7. Observed(h, r.got, files)
      BY <2>3, <2>4, <2>5, <2>6 DEF Observed
    <2> QED
      BY <1>1, <2>1, <2>2, <2>7, HistoryMoves
  <1>7. ASSUME NEW f \in Files, Edit(f)
        PROVE  HeldInv'
    <2>1. PICK c \in MayHold(f) :
            /\ files' = [files EXCEPT ![f] = c]
            /\ held' = [w \in Reloaders |-> IF reload[w].pc = "reading" THEN [held[w] EXCEPT ![f] = @ \cup {c}] ELSE held[w]]
      BY <1>7 DEF Edit
    <2>2. Files' = Files /\ held' = [w \in Reloaders |-> held'[w]]
      BY <1>7, <2>1 DEF Edit, Files
    <2> SUFFICES ASSUME NEW w \in Reloaders, reload'[w].pc = "reading"
                 PROVE  Observed(held'[w], reload'[w].got, files')
      BY <2>2 DEF HeldInv, Observed
    <2>3. reload'[w].pc = reload[w].pc /\ reload'[w].got = reload[w].got
      <3>1. reload'[w] = [reload[w] EXCEPT !.current = FALSE] /\ reload[w] \in Reload
        BY <1>1, <1>7 DEF Edit
      <3> QED
        BY <3>1 DEF Reload
    <2>4. Observed(held[w], reload[w].got, files)
      BY <2>3 DEF HeldInv
    <2> DEFINE h == [held[w] EXCEPT ![f] = @ \cup {c}]
    <2>5. held'[w] = h
      BY <2>1, <2>3
    <2>6. h = [g \in Files |-> h[g]] /\ \A g \in Files : h[g] = IF g = f THEN held[w][g] \cup {c} ELSE held[w][g]
      BY <2>4 DEF Observed
    <2> HIDE DEF h
    <2>7. \A g \in Files : files'[g] = IF g = f THEN c ELSE files[g]
      BY <1>1, <2>1
    <2>8. Observed(h, reload[w].got, files')
      BY <2>4, <2>6, <2>7 DEF Observed
    <2> QED
      BY <2>3, <2>5, <2>8
  <1>8. ASSUME NEW w \in Reloaders, CallReload(w)
        PROVE  HeldInv'
    BY <1>3, <1>8 DEF CallReload
  <1>9. CASE HandleEvent
    BY <1>1, <1>3, <1>9 DEF HandleEvent
  <1>10. ASSUME NEW w \in Reloaders, LoadError(w)
         PROVE  HeldInv'
    BY <1>2, <1>4, <1>10 DEF LoadError
  <1>11. ASSUME NEW w \in Reloaders, Install(w)
         PROVE  HeldInv'
    <2>1. PICK r \in {Idle, ReloadFailed} : reload' = [reload EXCEPT ![w] = r]
      BY <1>11 DEF Install
    <2>2. Forget(w) /\ UNCHANGED <<setup, files>> /\ r.pc # "reading"
      BY <1>2, <1>11, <2>1 DEF Install
    <2> QED
      BY <1>4, <2>1, <2>2
  <1>12. CASE WatcherExit
    BY <1>1, <1>2, <1>12, HistoryStays DEF WatcherExit
  <1>13. CASE UNCHANGED <<setup, files, reload, held>>
    BY <1>13 DEF HeldInv, Observed, Files
  <1> QED
    BY <1>5, <1>6, <1>7, <1>8, <1>9, <1>10, <1>11, <1>12, <1>13
       DEF Next, EvalNext, Evaluate, NextPolicy, evaluateRule, EndPolicy, Timeout, Return, ReloadNext, Close, CloseReturn, vars

(* Whatever reloads overlap, edits and failures meet, every installed      *)
(* policy stood in its file while that reload read, and one is missing     *)
(* only when its own file in a directory held none, or could not be read.  *)
THEOREM InstalledIsWhatWasHeld == Spec => InstalledWasHeld
  <1>1. Init => HeldInv
    <2> SUFFICES ASSUME Init PROVE HeldInv
      OBVIOUS
    <2>1. \A w \in Reloaders : reload[w].pc # "reading"
      BY DEF Init, Idle
    <2> QED
      BY <2>1 DEF Init, HeldInv
  <1>2. ASSUME ReloadInv, EngineInv, HeldInv, NEW w \in Reloaders, Install(w), policies' # policies
        PROVE  /\ \A i \in DOMAIN policies' : \E f \in Files : \E p \in held[w][f] \cap Policies : policies'[i] = Sorted(p)
               /\ \A f \in Files : Has(policies', f) \/ (setup.dir /\ held[w][f] \ Policies # {})
    <2> DEFINE got == reload[w].got
               new == Loaded(got)
    <2>1. reload[w].pc = "reading" /\ policies' = NormalizePolicyPriorities(new)
      BY <1>2 DEF Install
    <2>2. DOMAIN got = Files /\ setup.walk \in Seq(DOMAIN Contents)
      BY <1>2, NothingInEmpty DEF Install, ReloadInv, ReloadTypes, Complete
    <2>3. Holds(got) /\ \A f \in Files : got[f] \in held[w][f]
      BY <1>2, <2>1, <2>2 DEF EngineInv, Holding, HeldInv, Observed
    <2>4. ToSet(policies') = {Sorted(p) : p \in new}
      BY <2>1, <2>2, <2>3, FilesAreFinite, LoadedOK
    <2> HIDE DEF got
    <2>5. ASSUME NEW i \in DOMAIN policies'
          PROVE  \E f \in Files : \E p \in held[w][f] \cap Policies : policies'[i] = Sorted(p)
      <3>1. PICK p \in new : policies'[i] = Sorted(p)
        BY <2>4 DEF ToSet
      <3>2. PICK f \in Files : p = got[f] /\ p \in Policies
        BY <2>2 DEF Loaded
      <3> QED
        BY <2>3, <3>1, <3>2
    <2>6. ASSUME NEW f \in Files
          PROVE  Has(policies', f) \/ (setup.dir /\ held[w][f] \ Policies # {})
      <3>1. got[f] \in Contents[f] \/ got[f] \notin Policies
        BY <2>2, <2>3, EngineAssumptions DEF Holds, MayHold, EngineAssumptions
      <3>2. CASE got[f] \in Policies
        <4>1. got[f] \in new /\ got[f] \in Contents[f]
          BY <2>2, <3>1, <3>2 DEF Loaded
        <4>2. PICK i \in DOMAIN policies' : policies'[i] = Sorted(got[f])
          BY <2>4, <4>1 DEF ToSet
        <4>3. Sorted(got[f]).name = got[f].name
          BY <3>2, PolicyAssumptions DEF Sorted, PolicyAssumptions
        <4> QED
          BY <4>1, <4>2, <4>3 DEF Has
      <3>3. CASE got[f] \notin Policies
        <4>1. setup.dir
          BY <1>2, <2>1, <2>2, <3>3 DEF ReloadInv, ReadsParsed, got
        <4> QED
          BY <2>3, <3>3, <4>1
      <3> QED
        BY <3>2, <3>3
    <2> QED
      BY <2>5, <2>6
  <1>3. ASSUME ReloadInv, EngineInv, HeldInv
        PROVE  \A w \in Reloaders : Install(w) /\ policies' # policies =>
                 /\ \A i \in DOMAIN policies' : \E f \in Files : \E p \in held[w][f] \cap Policies :
                       policies'[i] = [p EXCEPT !.rules = SortRulesByPriority(@)]
                 /\ \A f \in Files : Has(policies', f) \/ (setup.dir /\ held[w][f] \ Policies # {})
    BY <1>2, <1>3 DEF Sorted
  <1>4. Spec => []HeldInv
    BY <1>1, StepHeld, ReloadInvariance, PTL DEF Spec
  <1> QED
    BY <1>3, <1>4, ReloadInvariance, EngineInvariance, PTL DEF Spec, InstalledWasHeld

=============================================================================
