--------------------------- MODULE PluginsProofs ---------------------------
(***************************************************************************)
(* Theorems about the plugins of Plugins, for any number of them.          *)
(***************************************************************************)
EXTENDS Plugins, FiniteSetTheorems, TLAPS

-----------------------------------------------------------------------------
(* Who polls a provider (Schedulers).                                      *)

SchedulersOK ==
  /\ hook \in [SC!Registrars -> {"idle", "initialize", "warmup", "merge"}]
  /\ owns \in [SC!Registrars -> BOOLEAN]
  /\ sched \in [SC!Registrars -> {"none", "armed", "running"}]
  /\ SC!OneScheduler

LEMMA SchedulersInit == SC!Init => SchedulersOK
  BY SchedulersAssumption
     DEF SchedulersAssumption, SC!Init, SchedulersOK, SC!OneScheduler, SC!Registrars

LEMMA SchedulersStep == SchedulersOK /\ [SC!Next]_engineVars => SchedulersOK'
<1> SUFFICES ASSUME SchedulersOK, [SC!Next]_engineVars PROVE SchedulersOK'
  OBVIOUS
<1> USE SchedulersAssumption DEF SchedulersAssumption, SchedulersOK, SC!OneScheduler
<1>r. OAuth \subseteq SC!Registrars /\ Lightbridge \subseteq SC!Registrars /\ None \notin SC!Registrars
  BY DEF SC!Registrars
<1>1. ASSUME NEW p \in OAuth, NEW s \in Signatures, SC!ConfigureOAuth(p, s) PROVE SchedulersOK'
  <2>1. hook[p] = "idle" /\ p \in SC!Registrars
    BY <1>1, <1>r DEF SC!ConfigureOAuth
  <2>2. CASE hook' = [hook EXCEPT ![p] = "merge"] /\ UNCHANGED <<engine, owner, owns, sched, fading>>
    BY <2>1, <2>2
  <2>3. CASE SC!Stop(p) /\ hook' = [hook EXCEPT ![p] = "initialize"]
    BY <2>1, <2>3, <1>r DEF SC!Stop
  <2> QED
    BY <1>1, <2>2, <2>3 DEF SC!ConfigureOAuth
<1>2. ASSUME NEW p \in OAuth, SC!ConfigureNone(p) PROVE SchedulersOK'
  BY <1>2, <1>r DEF SC!ConfigureNone, SC!Stop
<1>3. ASSUME NEW p \in Lightbridge, NEW s \in Signatures, NEW conflict \in BOOLEAN,
             SC!ConfigureRegister(p, s, conflict)
      PROVE SchedulersOK'
  BY <1>3, <1>r DEF SC!ConfigureRegister
<1>4. ASSUME NEW p \in SC!Registrars, SC!Initialize(p) PROVE SchedulersOK'
  <2>1. hook[p] = "initialize" /\ UNCHANGED <<engine, sched, fading>>
    BY <1>4 DEF SC!Initialize
  <2>2. CASE /\ owner \in {None, p} /\ owner' = p /\ owns' = [owns EXCEPT ![p] = TRUE]
             /\ hook' = [hook EXCEPT ![p] = "warmup"]
    BY <1>r, <2>1, <2>2
  <2>3. CASE owner \notin {None, p} /\ hook' = [hook EXCEPT ![p] = "merge"] /\ UNCHANGED <<owner, owns>>
    BY <1>r, <2>1, <2>3
  <2> QED
    BY <1>4, <2>2, <2>3 DEF SC!Initialize, SC!Started
<1>5. ASSUME NEW p \in SC!Registrars, SC!InitializeFails(p) \/ SC!Merge(p) PROVE SchedulersOK'
  BY <1>5, <1>r DEF SC!InitializeFails, SC!Merge
<1>6. ASSUME NEW p \in SC!Registrars, SC!Warmup(p) PROVE SchedulersOK'
  BY <1>6, <1>r DEF SC!Warmup, SC!Started
<1>7. ASSUME NEW p \in SC!Registrars, SC!Tick(p) \/ SC!Ran(p) PROVE SchedulersOK'
  BY <1>7, <1>r DEF SC!Tick, SC!Ran
<1>8. CASE UNCHANGED engineVars
  BY <1>8 DEF engineVars
<1> QED
  BY <1>1, <1>2, <1>3, <1>4, <1>5, <1>6, <1>7, <1>8 DEF SC!Next

-----------------------------------------------------------------------------
(* Project tokens (RepoAuth).                                              *)

Plugged == [build : Nat, provider : Providers, project : RA!Projects]
Rooted  == [era : Nat, valid : BOOLEAN]
Tokens  == [era : Nat, usable : BOOLEAN]
Called  == [pc : {"idle", "load", "check", "joined", "human", "login", "post", "save", "done", "failed"},
            plugin : Plugged \cup {None}, token : Tokens \cup {None}, subject : Nat \cup {None},
            leader : RA!Callers \cup {None}]

RepoTypes ==
  /\ plugins \subseteq Plugged /\ builds \in Nat /\ resets \in Nat
  /\ exchanges \subseteq [plugin : Plugged, by : RA!Callers]
  /\ call \in [RA!Callers -> Called]
  /\ human \in Rooted \cup {None}
  /\ project \in [RA!Projects -> Tokens \cup {None}]
  /\ resetting \in BOOLEAN /\ crossed \in BOOLEAN
  /\ \A c \in RA!Callers :
       /\ RA!Busy(c) => call[c].plugin \in Plugged
       /\ call[c].pc = "joined" => call[c].leader \in RA!Callers
       /\ call[c].pc = "post" => call[c].subject \in Nat

\* An exchange is in flight exactly as long as somebody runs it.
ExchangesAreRun ==
  /\ \A e \in exchanges : RA!Exchanging(e.by) /\ call[e.by].plugin = e.plugin
  /\ \A c \in RA!Callers : RA!Exchanging(c) => \E e \in exchanges : e.by = c

\* The root survives no reset, and as long as no exchange crossed one, nor does what
\* an exchange has made of a root.
RootIsCurrent ==
  /\ human # None => human.era = resets
  /\ ~crossed => \A c \in RA!Callers :
       /\ call[c].pc = "post" => call[c].subject = resets
       /\ call[c].pc = "save" => call[c].token # None /\ call[c].token.era = resets

RepoOK ==
  RepoTypes /\ ExchangesAreRun /\ RA!OneExchangePerMiss /\ RootIsCurrent /\ RA!NothingSurvivesReset

LEMMA CallingType == RA!Calling \in Called /\ RA!Calling.pc = "idle"
  BY DEF RA!Calling, Called

LEMMA RepoInit == RA!Init => RepoOK
<1> SUFFICES ASSUME RA!Init PROVE RepoOK
  OBVIOUS
<1>1. call \in [RA!Callers -> Called] /\ \A c \in RA!Callers : call[c].pc = "idle"
  BY CallingType DEF RA!Init
<1>2. RepoTypes
  BY <1>1 DEF RA!Init, RepoTypes, RA!Busy
<1> QED
  BY <1>1, <1>2 DEF RA!Init, RepoOK, ExchangesAreRun, RA!OneExchangePerMiss, RA!Exchanging,
                    RootIsCurrent, RA!NothingSurvivesReset

LEMMA ManagedTypes ==
  ASSUME NEW config \in Configs, NEW e \in RA!ManagedProviders(config)
  PROVE e.provider \in Providers /\ e.project \in RA!Projects
<1>1. PICK i \in DOMAIN config : e = config[i] /\ RA!OptsIn(config[i])
  BY DEF RA!ManagedProviders
<1>2. e.project # None
  BY <1>1 DEF RA!OptsIn
<1>3. e \in RA!Range(config)
  BY <1>1 DEF RA!Range
<1>4. e.project \in {d.project : d \in RA!Range(config)}
  BY <1>3
<1>5. e.project \in RA!Projects
  BY <1>2, <1>4 DEF RA!Projects
<1> QED
  BY <1>1, <1>5, RepoAuthAssumption DEF RepoAuthAssumption

\* A new runtime is for nobody yet; the calls of before go on with the old ones.
LEMMA ConfigHookStep ==
  ASSUME RepoOK, NEW config \in Configs, RA!ConfigHook(config)
  PROVE RepoOK'
<1> DEFINE managed == RA!ManagedProviders(config)
           reused == signature = RA!RuntimeSignature(managed) /\ plugins # {}
           byProvider == IF managed = {} THEN {} ELSE IF reused THEN plugins ELSE RA!Built(managed)
           warmed == {q \in byProvider : \E e \in managed : e.provider = q.provider /\ ~e.userAuth}
           load(c) == [RA!Calling EXCEPT !.pc = "load",
                                         !.plugin = CHOOSE q \in warmed : q.provider = c]
<1>1. RA!Built(managed) \subseteq Plugged
  BY ManagedTypes DEF RA!Built, Plugged, RepoOK, RepoTypes
<1>2. byProvider \subseteq Plugged
  BY <1>1 DEF RepoOK, RepoTypes
<1>3. /\ plugins' = byProvider
      /\ builds' \in {builds, builds + 1}
      /\ call' = [c \in RA!Callers |-> IF \E q \in warmed : q.provider = c THEN load(c) ELSE call[c]]
      /\ \A p \in Providers : ~RA!Busy(p)
      /\ UNCHANGED <<exchanges, human, project, resets, resetting, crossed>>
  BY DEF RA!ConfigHook
<1>4. ASSUME NEW c \in RA!Callers, \E q \in warmed : q.provider = c
      PROVE c \in Providers /\ ~RA!Busy(c) /\ load(c) \in Called /\ load(c).pc = "load"
            /\ load(c).plugin \in Plugged
  <2>1. PICK q \in warmed : q.provider = c
    BY <1>4
  <2>2. (CHOOSE r \in warmed : r.provider = c) \in Plugged
    BY <1>2, <2>1
  <2>3. c \in Providers
    BY <1>2, <2>1 DEF Plugged
  <2> HIDE DEF warmed
  <2> QED
    BY <1>3, <2>2, <2>3, CallingType DEF Called
<1> HIDE DEF managed, reused, byProvider, warmed, load
<1>5. \A c \in RA!Callers :
        \/ call'[c] = call[c]
        \/ ~RA!Busy(c) /\ call'[c] \in Called /\ call'[c].pc = "load" /\ call'[c].plugin \in Plugged
  BY <1>3, <1>4
<1>6. call' \in [RA!Callers -> Called]
  BY <1>3, <1>4 DEF RepoOK, RepoTypes
<1>7. RepoTypes'
  BY <1>2, <1>3, <1>5, <1>6 DEF RepoOK, RepoTypes, RA!Busy
<1>8. \A c \in RA!Callers : RA!Exchanging(c) => RA!Busy(c)
  BY DEF RA!Exchanging, RA!Busy, RepoOK, RepoTypes
<1>9. \A c \in RA!Callers : RA!Exchanging(c)' \/ RA!Exchanging(c) => call'[c] = call[c]
  BY <1>5, <1>8 DEF RA!Exchanging
<1>10. ExchangesAreRun'
  BY <1>3, <1>9 DEF RepoOK, RepoTypes, ExchangesAreRun, RA!Exchanging
<1>11. RA!OneExchangePerMiss'
  <2>1. \A c \in RA!Callers : call'[c].pc = "joined" => call'[c] = call[c]
    BY <1>5
  <2>2. \A c \in RA!Callers : RA!Exchanging(c)' <=> RA!Exchanging(c)
    BY <1>9 DEF RA!Exchanging
  <2>3. \A c \in RA!Callers : call[c].pc = "joined" => call[c].leader \in RA!Callers
    BY DEF RepoOK, RepoTypes
  <2> QED
    BY <1>9, <2>1, <2>2, <2>3 DEF RepoOK, RA!OneExchangePerMiss
<1>12. RootIsCurrent' /\ RA!NothingSurvivesReset'
  BY <1>3, <1>5 DEF RepoOK, RootIsCurrent, RA!NothingSurvivesReset
<1> QED
  BY <1>7, <1>10, <1>11, <1>12 DEF RepoOK

\* A call that goes on by itself: no exchange begins or ends, nobody joins one.
LEMMA OwnStep ==
  ASSUME RepoOK, NEW c \in RA!Callers, NEW g \in Called, call' = [call EXCEPT ![c] = g],
         exchanges' = exchanges, g.pc # "joined",
         RA!Exchanging(c) <=> g.pc \in {"human", "login", "post", "save"},
         RA!Exchanging(c) => g.plugin = call[c].plugin
  PROVE ExchangesAreRun' /\ RA!OneExchangePerMiss'
<1>1. \A d \in RA!Callers : call'[d] = IF d = c THEN g ELSE call[d]
  BY DEF RepoOK, RepoTypes
<1>2. \A d \in RA!Callers : /\ RA!Exchanging(d)' <=> RA!Exchanging(d)
                            /\ RA!Exchanging(d) => call'[d].plugin = call[d].plugin
  BY <1>1 DEF RA!Exchanging
<1>3. \A e \in exchanges : e.by \in RA!Callers
  BY DEF RepoOK, RepoTypes
<1>4. ExchangesAreRun'
  BY <1>2, <1>3 DEF RepoOK, ExchangesAreRun
<1>5. \A d \in RA!Callers : call'[d].pc = "joined" => call'[d] = call[d] /\ call[d].leader \in RA!Callers
  BY <1>1 DEF RepoOK, RepoTypes
<1>6. RA!OneExchangePerMiss'
  BY <1>2, <1>5 DEF RepoOK, RA!OneExchangePerMiss
<1> QED
  BY <1>4, <1>6

\* The end of an exchange, for the one who ran it and for those who joined it.
LEMMA SettledStep ==
  ASSUME RepoOK, NEW c \in RA!Callers, NEW pc \in {"done", "failed"}, RA!Exchanging(c),
         RA!Settled(c, pc)
  PROVE /\ ExchangesAreRun' /\ RA!OneExchangePerMiss'
        /\ call' \in [RA!Callers -> Called] /\ exchanges' \subseteq exchanges
        /\ \A d \in RA!Callers : call'[d] = call[d] \/ call'[d].pc = pc
<1> DEFINE ended == RA!Ended(pc)
<1>1. ended \in Called /\ ended.pc = pc
  BY CallingType DEF RA!Ended, Called
<1>2. call' = [d \in RA!Callers |->
                 IF d = c \/ (call[d].pc = "joined" /\ call[d].leader = c) THEN ended ELSE call[d]]
      /\ exchanges' = {x \in exchanges : x.by # c}
  BY DEF RA!Settled
<1> HIDE DEF ended
<1>3. call' \in [RA!Callers -> Called] /\ \A d \in RA!Callers : call'[d] = call[d] \/ call'[d].pc = pc
  BY <1>1, <1>2 DEF RepoOK, RepoTypes
<1>4. \A d \in RA!Callers : (RA!Exchanging(d)' <=> RA!Exchanging(d) /\ d # c)
                            /\ (d # c /\ RA!Exchanging(d) => call'[d] = call[d])
  BY <1>1, <1>2 DEF RA!Exchanging
<1>5. \A e \in exchanges : e.by \in RA!Callers
  BY DEF RepoOK, RepoTypes
<1>6. ExchangesAreRun'
  BY <1>2, <1>4, <1>5 DEF RepoOK, ExchangesAreRun
<1>7. \A d \in RA!Callers : call'[d].pc = "joined" =>
        call'[d] = call[d] /\ call[d].leader \in RA!Callers /\ call[d].leader # c
  BY <1>1, <1>2 DEF RepoOK, RepoTypes
<1>8. RA!OneExchangePerMiss'
  BY <1>4, <1>7 DEF RepoOK, RA!OneExchangePerMiss
<1> QED
  BY <1>2, <1>3, <1>6, <1>8

LEMMA CallStep ==
  ASSUME RepoOK, NEW c \in RA!Callers,
         RA!ChatHeaders(c) \/ RA!Resolve(c) \/ RA!Exchange(c)
  PROVE RepoOK'
<1> DEFINE f == call[c]
<1>t. /\ f \in Called /\ call \in [RA!Callers -> Called] /\ RepoTypes
      /\ (RA!Busy(c) => f.plugin \in Plugged)
  BY DEF RepoOK, RepoTypes
<1>r. UNCHANGED <<plugins, builds, resets, resetting, crossed>>
  BY DEF RA!ChatHeaders, RA!Resolve, RA!Exchange, RA!LoadCached, RA!ReturnCached, RA!Join,
         RA!StartExchange, RA!HumanReady, RA!HumanMissing, RA!LoggedIn, RA!Exchanged, RA!Saved,
         RA!ExchangeFails
<1>o. ASSUME NEW g \in Called, call' = [call EXCEPT ![c] = g], UNCHANGED <<exchanges, project>>,
             human' \in Rooted \cup {None}, human' # None => human'.era = resets,
             g.pc # "joined", g.pc \notin {"idle", "done", "failed"} => g.plugin \in Plugged,
             g.pc = "post" => g.subject \in Nat,
             RA!Exchanging(c) <=> g.pc \in {"human", "login", "post", "save"},
             RA!Exchanging(c) => g.plugin = f.plugin,
             ~crossed => /\ g.pc = "post" => g.subject = resets
                         /\ g.pc = "save" => g.token # None /\ g.token.era = resets
      PROVE RepoOK'
  <2>1. ExchangesAreRun' /\ RA!OneExchangePerMiss'
    BY <1>o, OwnStep
  <2>2. RepoTypes'
    BY <1>o, <1>t, <1>r DEF RepoTypes, RA!Busy
  <2>3. RootIsCurrent'
    BY <1>o, <1>t, <1>r DEF RepoOK, RootIsCurrent
  <2>4. RA!NothingSurvivesReset'
    BY <1>o, <1>r DEF RepoOK, RA!NothingSurvivesReset
  <2> QED
    BY <2>1, <2>2, <2>3, <2>4 DEF RepoOK
<1>s. ASSUME NEW pc \in {"done", "failed"}, RA!Exchanging(c), RA!Settled(c, pc), UNCHANGED human,
             project' \in [RA!Projects -> Tokens \cup {None}],
             \A p \in RA!Projects : project'[p] = project[p]
                                    \/ (f.pc = "save" /\ project'[p] = f.token)
      PROVE RepoOK'
  <2>1. /\ ExchangesAreRun' /\ RA!OneExchangePerMiss'
        /\ call' \in [RA!Callers -> Called] /\ exchanges' \subseteq exchanges
        /\ \A d \in RA!Callers : call'[d] = call[d] \/ call'[d].pc = pc
    BY <1>s, SettledStep
  <2>2. RepoTypes'
    BY <1>s, <1>t, <1>r, <2>1 DEF RepoTypes, RA!Busy
  <2>3. RootIsCurrent'
    BY <1>s, <1>r, <2>1 DEF RepoOK, RootIsCurrent
  <2>4. RA!NothingSurvivesReset'
    BY <1>s, <1>r DEF RepoOK, RootIsCurrent, RA!NothingSurvivesReset
  <2> QED
    BY <2>1, <2>2, <2>3, <2>4 DEF RepoOK
<1>h. human \in Rooted \cup {None} /\ (human # None => human.era = resets) /\ resets \in Nat
      /\ (~crossed => /\ f.pc = "post" => f.subject = resets
                      /\ f.pc = "save" => f.token # None /\ f.token.era = resets)
  BY <1>t DEF RepoOK, RepoTypes, RootIsCurrent
<1>1. CASE RA!ChatHeaders(c)
  <2>1. PICK q \in plugins : /\ call' = [call EXCEPT ![c] = [RA!Calling EXCEPT !.pc = "load", !.plugin = q]]
                             /\ f.pc = "idle" /\ UNCHANGED <<exchanges, human, project>>
    BY <1>1 DEF RA!ChatHeaders
  <2> DEFINE g == [RA!Calling EXCEPT !.pc = "load", !.plugin = q]
  <2>2. g \in Called /\ g.pc = "load" /\ g.plugin \in Plugged
    BY <1>t, <2>1, CallingType DEF Called, RepoTypes
  <2>3. call' = [call EXCEPT ![c] = g]
    BY <2>1
  <2> HIDE DEF g
  <2> QED
    BY <1>h, <1>o, <2>1, <2>2, <2>3 DEF RA!Exchanging
<1>2. CASE RA!LoadCached(c)
  <2> DEFINE g == [f EXCEPT !.pc = "check", !.token = project[f.plugin.project]]
  <2>1. f.pc = "load" /\ call' = [call EXCEPT ![c] = g] /\ UNCHANGED <<exchanges, human, project>>
    BY <1>2 DEF RA!LoadCached
  <2>2. f.plugin \in Plugged
    BY <1>t, <2>1 DEF RA!Busy
  <2>3. project[f.plugin.project] \in Tokens \cup {None}
    BY <1>t, <2>2 DEF Plugged, RepoTypes
  <2>4. g \in Called /\ g.pc = "check" /\ g.plugin = f.plugin
    BY <1>t, <2>3 DEF Called
  <2> HIDE DEF g
  <2> QED
    BY <1>h, <1>o, <2>1, <2>2, <2>4 DEF RA!Exchanging
<1>3. CASE RA!ReturnCached(c)
  <2>1. RA!Ended("done") \in Called /\ RA!Ended("done").pc = "done"
    BY CallingType DEF RA!Ended, Called
  <2>2. f.pc = "check" /\ call' = [call EXCEPT ![c] = RA!Ended("done")]
        /\ UNCHANGED <<exchanges, human, project>>
    BY <1>3 DEF RA!ReturnCached
  <2> QED
    BY <1>h, <1>o, <2>1, <2>2 DEF RA!Exchanging
<1>4. CASE RA!HumanReady(c)
  <2> DEFINE g == [f EXCEPT !.pc = "post", !.subject = human.era]
  <2>1. /\ f.pc = "human" /\ human # None /\ human' = [human EXCEPT !.valid = TRUE]
        /\ call' = [call EXCEPT ![c] = g] /\ UNCHANGED <<exchanges, project>>
    BY <1>4 DEF RA!HumanReady
  <2>2. human \in Rooted /\ human.era = resets
    BY <1>h, <2>1
  <2>3. human' \in Rooted /\ human'.era = resets
    BY <2>1, <2>2 DEF Rooted
  <2>4. g \in Called /\ g.pc = "post" /\ g.plugin = f.plugin /\ g.subject = resets
    BY <1>h, <1>t, <2>2 DEF Called
  <2>5. f.plugin \in Plugged
    BY <1>t, <2>1 DEF RA!Busy
  <2> HIDE DEF g
  <2> QED
    BY <1>h, <1>o, <2>1, <2>3, <2>4, <2>5 DEF RA!Exchanging
<1>5. CASE RA!HumanMissing(c)
  <2> DEFINE g == [f EXCEPT !.pc = "login"]
  <2>1. f.pc = "human" /\ UNCHANGED <<human, project>> /\ RA!Exchanging(c)
    BY <1>5 DEF RA!HumanMissing, RA!Exchanging
  <2>2. CASE RA!Settled(c, "failed")
    BY <1>s, <1>t, <2>1, <2>2 DEF RepoTypes
  <2>3. CASE call' = [call EXCEPT ![c] = g] /\ UNCHANGED exchanges
    <3>1. g \in Called /\ g.pc = "login" /\ g.plugin = f.plugin
      BY <1>t DEF Called
    <3>2. f.plugin \in Plugged
      BY <1>t, <2>1 DEF RA!Busy
    <3>3. call' = [call EXCEPT ![c] = g]
      BY <2>3
    <3> HIDE DEF g
    <3> QED
      BY <1>h, <1>o, <2>1, <2>3, <3>1, <3>2, <3>3 DEF RA!Exchanging
  <2> QED
    BY <1>5, <2>2, <2>3 DEF RA!HumanMissing
<1>6. CASE RA!LoggedIn(c)
  <2> DEFINE g == [f EXCEPT !.pc = "post", !.subject = resets]
  <2>1. /\ f.pc = "login" /\ human' = [era |-> resets, valid |-> TRUE]
        /\ call' = [call EXCEPT ![c] = g] /\ UNCHANGED <<exchanges, project>>
    BY <1>6 DEF RA!LoggedIn
  <2>2. human' \in Rooted /\ human'.era = resets
    BY <1>h, <2>1 DEF Rooted
  <2>3. g \in Called /\ g.pc = "post" /\ g.plugin = f.plugin /\ g.subject = resets
    BY <1>h, <1>t DEF Called
  <2>4. f.plugin \in Plugged
    BY <1>t, <2>1 DEF RA!Busy
  <2> HIDE DEF g
  <2> QED
    BY <1>h, <1>o, <2>1, <2>2, <2>3, <2>4 DEF RA!Exchanging
<1>7. CASE RA!Exchanged(c)
  <2> DEFINE made == [era |-> f.subject, usable |-> TRUE]
             g == [f EXCEPT !.pc = "save", !.token = made]
  <2>1. f.pc = "post" /\ call' = [call EXCEPT ![c] = g] /\ UNCHANGED <<exchanges, human, project>>
    BY <1>7 DEF RA!Exchanged
  <2>2. f.subject \in Nat
    BY <1>t, <2>1 DEF RepoTypes
  <2>3. made \in Tokens /\ made.era = f.subject
    BY <2>2 DEF Tokens
  <2> HIDE DEF made
  <2>4. g \in Called /\ g.pc = "save" /\ g.plugin = f.plugin /\ g.token = made
    BY <1>t, <2>3 DEF Called
  <2>5. f.plugin \in Plugged
    BY <1>t, <2>1 DEF RA!Busy
  <2>6. made # None
    BY <2>3, NoneAssumption DEF NoneAssumption, Tokens
  <2> HIDE DEF g
  <2> QED
    BY <1>h, <1>o, <2>1, <2>3, <2>4, <2>5, <2>6 DEF RA!Exchanging
<1>8. CASE RA!Saved(c)
  <2>1. /\ f.pc = "save" /\ project' = [project EXCEPT ![f.plugin.project] = f.token]
        /\ RA!Settled(c, "done") /\ UNCHANGED human
    BY <1>8 DEF RA!Saved
  <2>2. f.token \in Tokens \cup {None}
    BY <1>t DEF Called
  <2>3. project' \in [RA!Projects -> Tokens \cup {None}]
        /\ \A p \in RA!Projects : project'[p] = project[p] \/ project'[p] = f.token
    BY <1>t, <2>1, <2>2 DEF RepoTypes
  <2> QED
    BY <1>s, <2>1, <2>3 DEF RA!Exchanging
<1>9. CASE RA!ExchangeFails(c)
  <2>1. RA!Exchanging(c) /\ RA!Settled(c, "failed") /\ UNCHANGED <<human, project>>
    BY <1>9 DEF RA!ExchangeFails, RA!Exchanging
  <2> QED
    BY <1>s, <1>t, <2>1 DEF RepoTypes
<1>10. CASE RA!StartExchange(c)
  <2> DEFINE g == [f EXCEPT !.pc = "human"]
             x == [plugin |-> f.plugin, by |-> c]
  <2>1. /\ f.pc = "check" /\ RA!InFlight(f.plugin) = {} /\ exchanges' = exchanges \cup {x}
        /\ call' = [call EXCEPT ![c] = g] /\ UNCHANGED <<human, project>>
    BY <1>10 DEF RA!StartExchange
  <2>2. f.plugin \in Plugged
    BY <1>t, <2>1 DEF RA!Busy
  <2>3. g \in Called /\ g.pc = "human" /\ g.plugin = f.plugin
    BY <1>t DEF Called
  <2>4. x \in [plugin : Plugged, by : RA!Callers] /\ x.by = c /\ x.plugin = f.plugin
    BY <2>2
  <2>5. \A e \in exchanges : e.plugin # f.plugin /\ e.by \in RA!Callers /\ e.by # c
    BY <1>t, <2>1 DEF RA!InFlight, RepoOK, RepoTypes, ExchangesAreRun, RA!Exchanging
  <2> HIDE DEF g, x
  <2>6. \A d \in RA!Callers : call'[d] = IF d = c THEN g ELSE call[d]
    BY <1>t, <2>1
  <2>7. \A d \in RA!Callers : RA!Exchanging(d)' <=> RA!Exchanging(d) \/ d = c
    BY <2>3, <2>6 DEF RA!Exchanging
  <2>8. ~RA!Exchanging(c) /\ \A d \in RA!Callers : RA!Exchanging(d) => call[d].plugin # f.plugin
    BY <2>1, <2>5 DEF RepoOK, ExchangesAreRun, RA!Exchanging
  <2>9. RepoTypes'
    BY <1>t, <1>r, <2>1, <2>2, <2>3, <2>4, <2>6 DEF RepoTypes, RA!Busy
  <2>10. ExchangesAreRun'
    BY <2>1, <2>3, <2>4, <2>5, <2>6, <2>7 DEF RepoOK, ExchangesAreRun
  <2>11. RA!OneExchangePerMiss'
    <3>1. \A d \in RA!Callers : call'[d].pc = "joined" =>
            call'[d] = call[d] /\ call[d].leader \in RA!Callers /\ call[d].leader # c
      BY <2>3, <2>6, <2>8 DEF RepoOK, RepoTypes, RA!OneExchangePerMiss
    <3> QED
      BY <2>3, <2>6, <2>7, <2>8, <3>1 DEF RepoOK, RA!OneExchangePerMiss
  <2>12. RootIsCurrent' /\ RA!NothingSurvivesReset'
    BY <1>r, <2>1, <2>3, <2>6 DEF RepoOK, RootIsCurrent, RA!NothingSurvivesReset
  <2> QED
    BY <2>9, <2>10, <2>11, <2>12 DEF RepoOK
<1>11. CASE RA!Join(c)
  <2>1. PICK x \in RA!InFlight(f.plugin) :
          call' = [call EXCEPT ![c] = [@ EXCEPT !.pc = "joined", !.leader = x.by]]
    BY <1>11 DEF RA!Join
  <2>2. f.pc = "check" /\ UNCHANGED <<exchanges, human, project>>
    BY <1>11 DEF RA!Join
  <2> DEFINE g == [f EXCEPT !.pc = "joined", !.leader = x.by]
  <2>3. /\ x \in exchanges /\ x.by \in RA!Callers /\ RA!Exchanging(x.by)
        /\ call[x.by].plugin = f.plugin /\ x.by # c
    BY <2>1, <2>2 DEF RA!InFlight, RepoOK, RepoTypes, ExchangesAreRun, RA!Exchanging
  <2>4. g \in Called /\ g.pc = "joined" /\ g.plugin = f.plugin /\ g.leader = x.by
    BY <1>t, <2>3 DEF Called
  <2>5. f.plugin \in Plugged
    BY <1>t, <2>2 DEF RA!Busy
  <2>6. call' = [call EXCEPT ![c] = g]
    BY <2>1
  <2> HIDE DEF g
  <2>7. \A d \in RA!Callers : call'[d] = IF d = c THEN g ELSE call[d]
    BY <1>t, <2>6
  <2>8. \A d \in RA!Callers : /\ RA!Exchanging(d)' <=> RA!Exchanging(d)
                              /\ call'[d].plugin = call[d].plugin
    BY <2>2, <2>4, <2>7 DEF RA!Exchanging
  <2>9. RepoTypes'
    <3>1. call' \in [RA!Callers -> Called]
      BY <1>t, <2>4, <2>6
    <3>2. \A d \in RA!Callers : RA!Busy(d)' => call'[d].plugin \in Plugged
      BY <1>t, <2>4, <2>5, <2>7 DEF RepoTypes, RA!Busy
    <3>3. \A d \in RA!Callers : /\ call'[d].pc = "joined" => call'[d].leader \in RA!Callers
                                /\ call'[d].pc = "post" => call'[d].subject \in Nat
      BY <1>t, <2>3, <2>4, <2>7 DEF RepoTypes
    <3> QED
      BY <1>t, <1>r, <2>2, <3>1, <3>2, <3>3 DEF RepoTypes
  <2>10. ExchangesAreRun'
    BY <1>t, <2>2, <2>8 DEF RepoOK, RepoTypes, ExchangesAreRun
  <2>11. RA!OneExchangePerMiss'
    <3>1. \A d \in RA!Callers : call'[d].pc = "joined" =>
            /\ call'[d].leader \in RA!Callers /\ RA!Exchanging(call'[d].leader)
            /\ call[call'[d].leader].plugin = call[d].plugin
      BY <2>3, <2>4, <2>7 DEF RepoOK, RepoTypes, RA!OneExchangePerMiss
    <3> QED
      BY <2>8, <3>1 DEF RepoOK, RA!OneExchangePerMiss
  <2>12. RootIsCurrent' /\ RA!NothingSurvivesReset'
    BY <1>r, <2>2, <2>4, <2>7 DEF RepoOK, RootIsCurrent, RA!NothingSurvivesReset
  <2> QED
    BY <2>9, <2>10, <2>11, <2>12 DEF RepoOK
<1> QED
  BY <1>1, <1>2, <1>3, <1>4, <1>5, <1>6, <1>7, <1>8, <1>9, <1>10, <1>11
     DEF RA!Resolve, RA!Exchange

\* The steps nobody calls for, the reset and its second half.
LEMMA RepoStep == RepoOK /\ [RA!Next]_repoVars => RepoOK'
<1> SUFFICES ASSUME RepoOK, [RA!Next]_repoVars PROVE RepoOK'
  OBVIOUS
<1>t. RepoTypes
  BY DEF RepoOK
<1>1. CASE RA!ProjectExpires
  <2> DEFINE aged(t) == IF t = None THEN None ELSE [t EXCEPT !.usable = FALSE]
  <2>1. /\ project' = [p \in RA!Projects |-> aged(project[p])]
        /\ call' = [c \in RA!Callers |-> IF call[c].pc = "check"
                                       THEN [call[c] EXCEPT !.token = aged(@)] ELSE call[c]]
        /\ UNCHANGED <<plugins, signature, builds, exchanges, human, resets, resetting, crossed>>
    BY <1>1 DEF RA!ProjectExpires
  <2>2. ASSUME NEW t \in Tokens \cup {None}
        PROVE aged(t) \in Tokens \cup {None} /\ (aged(t) # None => t # None /\ aged(t).era = t.era)
    BY DEF Tokens
  <2> HIDE DEF aged
  <2>3. \A c \in RA!Callers :
          /\ call'[c] \in Called /\ call'[c].pc = call[c].pc /\ call'[c].plugin = call[c].plugin
          /\ call'[c].leader = call[c].leader /\ call'[c].subject = call[c].subject
          /\ call[c].pc # "check" => call'[c] = call[c]
    BY <1>t, <2>1, <2>2 DEF RepoTypes, Called
  <2>4. project' \in [RA!Projects -> Tokens \cup {None}]
        /\ \A p \in RA!Projects : project'[p] # None => project[p] # None /\ project'[p].era = project[p].era
    BY <1>t, <2>1, <2>2 DEF RepoTypes
  <2>5. call' \in [RA!Callers -> Called]
    BY <2>1, <2>3
  <2>6. RepoTypes'
    BY <1>t, <2>1, <2>3, <2>4, <2>5 DEF RepoTypes, RA!Busy
  <2>7. \A c \in RA!Callers : RA!Exchanging(c)' <=> RA!Exchanging(c)
    BY <2>3 DEF RA!Exchanging
  <2>8. ExchangesAreRun'
    BY <1>t, <2>1, <2>3, <2>7 DEF RepoOK, RepoTypes, ExchangesAreRun
  <2>9. RA!OneExchangePerMiss'
    BY <1>t, <2>3, <2>7 DEF RepoOK, RepoTypes, RA!OneExchangePerMiss
  <2>10. RootIsCurrent' /\ RA!NothingSurvivesReset'
    BY <2>1, <2>3, <2>4 DEF RepoOK, RootIsCurrent, RA!NothingSurvivesReset
  <2> QED
    BY <2>6, <2>8, <2>9, <2>10 DEF RepoOK
<1> DEFINE sameCalls == UNCHANGED <<plugins, builds, exchanges, call>>
<1>c. ASSUME sameCalls PROVE ExchangesAreRun' /\ RA!OneExchangePerMiss'
  BY <1>c DEF RepoOK, ExchangesAreRun, RA!OneExchangePerMiss, RA!Exchanging
<1>2. CASE RA!HumanExpires
  <2>1. sameCalls /\ UNCHANGED <<project, resets, resetting, crossed>>
        /\ human # None /\ human' = [human EXCEPT !.valid = FALSE]
    BY <1>2 DEF RA!HumanExpires
  <2>2. human' \in Rooted /\ human'.era = human.era
    BY <1>t, <2>1 DEF RepoTypes, Rooted
  <2>3. RepoTypes'
    BY <1>t, <2>1, <2>2 DEF RepoTypes, RA!Busy
  <2>4. RootIsCurrent' /\ RA!NothingSurvivesReset'
    BY <2>1, <2>2 DEF RepoOK, RootIsCurrent, RA!NothingSurvivesReset
  <2> QED
    BY <1>c, <2>1, <2>3, <2>4 DEF RepoOK
<1>3. CASE RA!Reset
  <2>1. sameCalls /\ UNCHANGED project /\ human' = None /\ resets' = resets + 1 /\ resetting' = TRUE
        /\ crossed' = (crossed \/ \E c \in RA!Callers : call[c].pc \in {"post", "save"})
    BY <1>3 DEF RA!Reset
  <2>2. RepoTypes'
    BY <1>t, <2>1 DEF RepoTypes, RA!Busy
  <2>3. RootIsCurrent' /\ RA!NothingSurvivesReset'
    BY <2>1 DEF RootIsCurrent, RA!NothingSurvivesReset
  <2> QED
    BY <1>c, <2>1, <2>2, <2>3 DEF RepoOK
<1>4. CASE RA!RemoveExchanged
  <2>1. sameCalls /\ UNCHANGED <<human, resets, crossed>> /\ resetting' = FALSE
        /\ project' = [p \in RA!Projects |-> None]
    BY <1>4 DEF RA!RemoveExchanged
  <2>2. RepoTypes'
    BY <1>t, <2>1 DEF RepoTypes, RA!Busy
  <2>3. RootIsCurrent' /\ RA!NothingSurvivesReset'
    BY <2>1 DEF RepoOK, RootIsCurrent, RA!NothingSurvivesReset
  <2> QED
    BY <1>c, <2>1, <2>2, <2>3 DEF RepoOK
<1>5. CASE UNCHANGED repoVars
  <2>1. sameCalls /\ UNCHANGED <<human, project, resets, resetting, crossed>>
    BY <1>5 DEF repoVars
  <2>2. RepoTypes' /\ RootIsCurrent' /\ RA!NothingSurvivesReset'
    BY <2>1 DEF RepoOK, RepoTypes, RA!Busy, RootIsCurrent, RA!NothingSurvivesReset
  <2> QED
    BY <1>c, <2>1, <2>2 DEF RepoOK
<1> QED
  BY <1>1, <1>2, <1>3, <1>4, <1>5, ConfigHookStep, CallStep DEF RA!Next

-----------------------------------------------------------------------------
(* The cache of the models (ModelsInfo).                                   *)

Record == [version : 1..MaxVersion, fetchedAt : Nat]
Run == [pc : {"idle", "get", "parse", "fetch", "put", "rename", "enrich"}, began : Nat,
        file : Record \cup {Nothing}, next : Record \cup {Nothing}]

\* What a record says of the catalog: it is not of the future, and its version was
\* still the server's when its clock was read.
Honest(record) == record # Nothing =>
  /\ record.version <= catalog.version /\ record.fetchedAt <= clock
  /\ catalog.replaced[record.version] # Nothing => catalog.replaced[record.version] >= record.fetchedAt

ModelsTypes ==
  /\ clock \in Nat
  /\ catalog \in [version : 1..MaxVersion, replaced : [1..MaxVersion -> Nat \cup {Nothing}]]
  /\ memory \in [Hosts -> Record \cup {Nothing}]
  /\ disk \in Record \cup {Nothing}
  /\ task \in [MI!Runs -> Run]

RecordsAreHonest ==
  /\ \A v \in 1..MaxVersion : v >= catalog.version => catalog.replaced[v] = Nothing
  /\ \A h \in Hosts : Honest(memory[h])
  /\ Honest(disk)
  /\ \A r \in MI!Runs : task[r].began <= clock /\ Honest(task[r].file) /\ Honest(task[r].next)

\* The plugin has the handle of every scheduler that runs, and never two.
HandlesAreHeld ==
  /\ handles \in [Hosts -> SUBSET MI!Runs] /\ running \in [Hosts -> SUBSET MI!Runs]
  /\ \A h \in Hosts : running[h] \subseteq handles[h]
  /\ \A h \in Hosts : \A r, s \in handles[h] : r = s

ModelsOK == ModelsTypes /\ RecordsAreHonest /\ HandlesAreHeld

LEMMA AtType == \A pc \in {"idle", "get", "parse", "fetch", "put", "rename", "enrich"} :
  /\ MI!At(pc) \in Run /\ MI!At(pc).pc = pc /\ MI!At(pc).began = 0
  /\ MI!At(pc).file = Nothing /\ MI!At(pc).next = Nothing
  BY DEF MI!At, Run

LEMMA ModelsInit == MI!Init => ModelsOK
<1> SUFFICES ASSUME MI!Init PROVE ModelsOK
  OBVIOUS
<1>1. ModelsTypes
  BY AtType, ModelsAssumption DEF MI!Init, ModelsTypes, ModelsAssumption
<1>2. RecordsAreHonest
  BY AtType DEF MI!Init, RecordsAreHonest, Honest
<1>3. HandlesAreHeld
  BY DEF MI!Init, HandlesAreHeld
<1> QED
  BY <1>1, <1>2, <1>3 DEF ModelsOK

\* A run that goes on, and what it does to the memory of its process and to the file.
LEMMA RunStep ==
  ASSUME ModelsOK, NEW r \in MI!Runs, NEW g \in Run, task' = [task EXCEPT ![r] = g],
         UNCHANGED <<clock, catalog>>, g.began <= clock, Honest(g.file), Honest(g.next),
         memory' \in [Hosts -> Record \cup {Nothing}], \A h \in Hosts : Honest(memory'[h]),
         disk' \in Record \cup {Nothing}, Honest(disk'),
         HandlesAreHeld'
  PROVE ModelsOK'
<1>1. \A s \in MI!Runs : task'[s] = IF s = r THEN g ELSE task[s]
  BY DEF ModelsOK, ModelsTypes
<1>2. ModelsTypes'
  BY DEF ModelsOK, ModelsTypes
<1> QED
  BY <1>1, <1>2 DEF ModelsOK, RecordsAreHonest, Honest

LEMMA ModelsStep == ModelsOK /\ [MI!Next]_modelsVars => ModelsOK'
<1> SUFFICES ASSUME ModelsOK, [MI!Next]_modelsVars PROVE ModelsOK'
  OBVIOUS
<1>t. /\ ModelsTypes /\ RecordsAreHonest /\ HandlesAreHeld
      /\ \A r \in MI!Runs : MI!Host(r) \in Hosts /\ task[r] \in Run
  BY DEF ModelsOK, ModelsTypes, MI!Runs, MI!Host
<1>m. /\ UNCHANGED memory => memory' \in [Hosts -> Record \cup {Nothing}] /\ \A h \in Hosts : Honest(memory'[h])
      /\ UNCHANGED disk => disk' \in Record \cup {Nothing} /\ Honest(disk')
      /\ UNCHANGED <<handles, running>> => HandlesAreHeld'
  BY <1>t DEF ModelsTypes, RecordsAreHonest, HandlesAreHeld
<1>n. Honest(Nothing) /\ \A h \in Hosts, x \in Record \cup {Nothing} : Honest(x) =>
        LET stored == [memory EXCEPT ![h] = x]
        IN  stored \in [Hosts -> Record \cup {Nothing}] /\ \A i \in Hosts : Honest(stored[i])
  BY <1>t DEF ModelsTypes, RecordsAreHonest, Honest
<1>r. ASSUME NEW r \in MI!Runs,
             \/ MI!Begin(r) \/ MI!GetMemory(r) \/ MI!GetFile(r) \/ MI!Parsed(r) \/ MI!Answered(r)
             \/ MI!FetchFails(r) \/ MI!Put(r) \/ MI!Renamed(r) \/ MI!RestartSchedulers(r)
             \/ MI!Refreshed(r)
      PROVE ModelsOK'
  <2> DEFINE f == task[r]
             h == MI!Host(r)
  <2>t. f \in Run /\ h \in Hosts /\ f.began <= clock /\ Honest(f.file) /\ Honest(f.next)
    BY <1>t DEF RecordsAreHonest
  <2>a. \A pc \in {"enrich", "idle"} : MI!At(pc) \in Run /\ MI!At(pc).began <= clock
                                      /\ Honest(MI!At(pc).file) /\ Honest(MI!At(pc).next)
    BY <1>t, <1>n, AtType DEF ModelsTypes
  <2>g. ASSUME NEW record, MI!Got(r, record), UNCHANGED <<clock, catalog, disk, handles, running>>,
               memory' \in [Hosts -> Record \cup {Nothing}], \A i \in Hosts : Honest(memory'[i])
        PROVE ModelsOK'
    <3> DEFINE again == [MI!At("fetch") EXCEPT !.began = f.began]
    <3>1. again \in Run /\ again.began = f.began /\ again.file = Nothing /\ again.next = Nothing
      BY <2>t, AtType DEF Run
    <3>2. task' = [task EXCEPT ![r] = MI!At("enrich")] \/ task' = [task EXCEPT ![r] = again]
      BY <2>g DEF MI!Got
    <3> HIDE DEF again
    <3> QED
      BY <1>m, <1>n, <2>t, <2>a, <2>g, <3>1, <3>2, RunStep
  <2>1. CASE MI!Begin(r)
    <3> DEFINE g == [f EXCEPT !.pc = "get", !.began = clock]
    <3>1. g \in Run /\ g.began = clock /\ g.file = f.file /\ g.next = f.next
      BY <1>t, <2>t DEF Run, ModelsTypes
    <3>2. task' = [task EXCEPT ![r] = g] /\ UNCHANGED <<clock, catalog, memory, disk, handles, running>>
      BY <2>1 DEF MI!Begin
    <3>3. g.began <= clock
      BY <1>t, <3>1 DEF ModelsTypes
    <3> HIDE DEF g
    <3> QED
      BY <1>m, <2>t, <3>1, <3>2, <3>3, RunStep
  <2>2. CASE MI!GetMemory(r)
    BY <1>m, <2>2, <2>g DEF MI!GetMemory
  <2>3. CASE MI!GetFile(r)
    <3> DEFINE g == [f EXCEPT !.pc = "parse", !.file = disk]
    <3>1. g \in Run /\ g.began = f.began /\ g.file = disk /\ g.next = f.next
      BY <1>t, <2>t DEF Run, ModelsTypes
    <3>2. task' = [task EXCEPT ![r] = g] /\ UNCHANGED <<clock, catalog, memory, disk, handles, running>>
      BY <2>3 DEF MI!GetFile
    <3>3. Honest(g.file)
      BY <1>t, <3>1 DEF RecordsAreHonest
    <3> HIDE DEF g
    <3> QED
      BY <1>m, <2>t, <3>1, <3>2, <3>3, RunStep
  <2>4. CASE MI!Parsed(r)
    <3>1. f.file \in Record \cup {Nothing}
      BY <2>t DEF Run
    <3>2. memory' \in {memory, [memory EXCEPT ![h] = f.file]} /\ MI!Got(r, f.file)
          /\ UNCHANGED <<clock, catalog, disk, handles, running>>
      BY <2>4 DEF MI!Parsed
    <3>3. memory' \in [Hosts -> Record \cup {Nothing}] /\ \A i \in Hosts : Honest(memory'[i])
      BY <1>m, <1>n, <2>t, <3>1, <3>2
    <3> QED
      BY <2>g, <3>2, <3>3
  <2>5. CASE MI!Answered(r)
    <3> DEFINE got == [version |-> catalog.version, fetchedAt |-> f.began]
               g == [MI!At("put") EXCEPT !.next = got]
    <3>1. got \in Record /\ got.version = catalog.version /\ got.fetchedAt = f.began
      BY <1>t, <2>t DEF Record, Run, ModelsTypes
    <3>2. Honest(got)
      BY <1>t, <2>t, <3>1 DEF Honest, RecordsAreHonest, ModelsTypes
    <3>3. task' = [task EXCEPT ![r] = g] /\ UNCHANGED <<clock, catalog, memory, disk, handles, running>>
      BY <2>5 DEF MI!Answered
    <3> HIDE DEF got
    <3>4. g \in Run /\ g.began = 0 /\ g.file = Nothing /\ g.next = got
      BY <3>1, AtType DEF Run
    <3> HIDE DEF g
    <3>5. g.began <= clock
      BY <1>t, <3>4 DEF ModelsTypes
    <3> QED
      BY <1>m, <1>n, <3>2, <3>3, <3>4, <3>5, RunStep
  <2>6. CASE MI!FetchFails(r)
    BY <1>m, <2>6, <2>a, RunStep DEF MI!FetchFails
  <2>7. CASE MI!Put(r)
    <3> DEFINE g == [f EXCEPT !.pc = "rename"]
    <3>1. g \in Run /\ g.began = f.began /\ g.file = f.file /\ g.next = f.next
      BY <2>t DEF Run
    <3>2. task' = [task EXCEPT ![r] = g] /\ UNCHANGED <<clock, catalog, disk, handles, running>>
          /\ memory' = [memory EXCEPT ![h] = f.next]
      BY <2>7 DEF MI!Put
    <3>3. f.next \in Record \cup {Nothing}
      BY <2>t DEF Run
    <3> HIDE DEF g
    <3>4. memory' \in [Hosts -> Record \cup {Nothing}] /\ \A i \in Hosts : Honest(memory'[i])
      BY <1>n, <2>t, <3>2, <3>3
    <3> QED
      BY <1>m, <2>t, <3>1, <3>2, <3>4, RunStep
  <2>8. CASE MI!Renamed(r)
    <3>1. f.next \in Record \cup {Nothing}
      BY <2>t DEF Run
    <3>2. task' = [task EXCEPT ![r] = MI!At("enrich")] /\ disk' \in {disk, f.next}
          /\ UNCHANGED <<clock, catalog, memory, handles, running>>
      BY <2>8 DEF MI!Renamed
    <3>3. disk' \in Record \cup {Nothing} /\ Honest(disk')
      BY <1>t, <2>t, <3>1, <3>2 DEF ModelsTypes, RecordsAreHonest
    <3> QED
      BY <1>m, <2>a, <3>2, <3>3, RunStep
  <2>9. CASE MI!RestartSchedulers(r)
    <3>1. /\ task' = [task EXCEPT ![r] = MI!At("idle")] /\ UNCHANGED <<clock, catalog, memory, disk>>
          /\ running' = [running EXCEPT ![h] = (@ \ handles[h]) \cup {r}]
          /\ handles' = [handles EXCEPT ![h] = {r}]
      BY <2>9 DEF MI!RestartSchedulers, MI!Ended
    <3>2. HandlesAreHeld'
      BY <1>t, <2>t, <3>1 DEF HandlesAreHeld
    <3> QED
      BY <1>m, <2>a, <3>1, <3>2, RunStep
  <2>10. CASE MI!Refreshed(r)
    BY <1>m, <2>10, <2>a, RunStep DEF MI!Refreshed, MI!Ended
  <2> QED
    BY <1>r, <2>1, <2>2, <2>3, <2>4, <2>5, <2>6, <2>7, <2>8, <2>9, <2>10
<1>1. ASSUME NEW h \in Hosts, MI!Dispose(h) PROVE ModelsOK'
  <2>1. UNCHANGED <<clock, catalog, memory, disk, task>>
    BY <1>1 DEF MI!Dispose
  <2>2. HandlesAreHeld'
    BY <1>1, <1>t DEF MI!Dispose, HandlesAreHeld
  <2> QED
    BY <1>t, <2>1, <2>2 DEF ModelsOK, ModelsTypes, RecordsAreHonest, Honest
<1>2. ASSUME NEW h \in Hosts, MI!Restart(h) PROVE ModelsOK'
  <2>1. UNCHANGED <<clock, catalog, disk>> /\ memory' = [memory EXCEPT ![h] = Nothing]
        /\ task' = [r \in MI!Runs |-> IF MI!Host(r) = h THEN MI!At("idle") ELSE task[r]]
    BY <1>2 DEF MI!Restart
  <2>2. HandlesAreHeld'
    BY <1>2, <1>t DEF MI!Restart, HandlesAreHeld
  <2>3. ModelsTypes'
    BY <1>t, <2>1, AtType DEF ModelsTypes
  <2>4. \A r \in MI!Runs : task'[r].began <= clock /\ Honest(task'[r].file) /\ Honest(task'[r].next)
    BY <1>t, <1>n, <2>1, AtType DEF ModelsTypes, RecordsAreHonest
  <2>5. \A i \in Hosts : Honest(memory'[i])
    BY <1>n, <2>1
  <2>6. RecordsAreHonest'
    BY <1>t, <2>1, <2>4, <2>5 DEF RecordsAreHonest, Honest
  <2> QED
    BY <2>2, <2>3, <2>6 DEF ModelsOK
<1>3. CASE MI!ReplaceCatalog
  <2>1. /\ catalog.version < MaxVersion /\ UNCHANGED <<clock, memory, disk, task, handles, running>>
        /\ catalog' = [version |-> catalog.version + 1,
                       replaced |-> [catalog.replaced EXCEPT ![catalog.version] = clock]]
    BY <1>3 DEF MI!ReplaceCatalog
  <2>2. /\ catalog.version \in 1..MaxVersion /\ MaxVersion \in Nat /\ clock \in Nat
        /\ catalog.replaced \in [1..MaxVersion -> Nat \cup {Nothing}]
    BY <1>t, ModelsAssumption DEF ModelsTypes, ModelsAssumption
  <2>3. /\ catalog' \in [version : 1..MaxVersion, replaced : [1..MaxVersion -> Nat \cup {Nothing}]]
        /\ catalog'.version = catalog.version + 1
        /\ \A v \in 1..MaxVersion :
             catalog'.replaced[v] = IF v = catalog.version THEN clock ELSE catalog.replaced[v]
    BY <2>1, <2>2
  <2>4. ASSUME NEW x \in Record \cup {Nothing}, Honest(x), x # Nothing
        PROVE /\ x.version <= catalog'.version /\ x.fetchedAt <= clock
              /\ catalog'.replaced[x.version] # Nothing => catalog'.replaced[x.version] >= x.fetchedAt
    BY <2>2, <2>3, <2>4 DEF Honest, Record
  <2>5. ModelsTypes'
    BY <1>t, <2>1, <2>3 DEF ModelsTypes
  <2>6. \A r \in MI!Runs : task[r].file \in Record \cup {Nothing} /\ task[r].next \in Record \cup {Nothing}
    BY <1>t DEF Run
  <2>7. RecordsAreHonest'
    <3>1. \A v \in 1..MaxVersion : v >= catalog'.version => catalog'.replaced[v] = Nothing
      BY <1>t, <2>2, <2>3 DEF RecordsAreHonest
    <3>2. \A x \in Record \cup {Nothing} : Honest(x) => (x # Nothing =>
              /\ x.version <= catalog'.version /\ x.fetchedAt <= clock
              /\ catalog'.replaced[x.version] # Nothing => catalog'.replaced[x.version] >= x.fetchedAt)
      BY <2>4
    <3> QED
      BY <1>t, <2>1, <2>6, <3>1, <3>2 DEF RecordsAreHonest, ModelsTypes, Honest
  <2>8. HandlesAreHeld'
    BY <1>m, <2>1
  <2> QED
    BY <2>5, <2>7, <2>8 DEF ModelsOK
<1>4. CASE MI!Tick
  <2>1. clock' = clock + 1 /\ UNCHANGED <<catalog, memory, disk, task, handles, running>> /\ clock \in Nat
    BY <1>4, <1>t DEF MI!Tick, ModelsTypes
  <2>2. \A x \in Record \cup {Nothing} : Honest(x) /\ x # Nothing => x.fetchedAt <= clock + 1
    BY <2>1 DEF Honest, Record
  <2>3. \A r \in MI!Runs : /\ task[r].file \in Record \cup {Nothing} /\ task[r].next \in Record \cup {Nothing}
                           /\ task[r].began <= clock + 1
    BY <1>t, <2>1 DEF Run, RecordsAreHonest
  <2>4. RecordsAreHonest'
    BY <1>t, <2>1, <2>2, <2>3 DEF RecordsAreHonest, ModelsTypes, Honest
  <2>5. ModelsTypes' /\ HandlesAreHeld'
    BY <1>t, <1>m, <2>1 DEF ModelsTypes
  <2> QED
    BY <2>4, <2>5 DEF ModelsOK
<1>5. CASE UNCHANGED modelsVars
  BY <1>5, <1>t DEF modelsVars, ModelsOK, ModelsTypes, RecordsAreHonest, HandlesAreHeld, Honest
<1> QED
  BY <1>r, <1>1, <1>2, <1>3, <1>4, <1>5 DEF MI!Next

\* Every instance counts as the library does.
LEMMA Cardinalities == \A S : MI!Cardinality(S) = Cardinality(S) /\ RE!Cardinality(S) = Cardinality(S)
  BY DEF MI!Cardinality, RE!Cardinality, Cardinality

LEMMA ModelsPromises == ModelsOK => MI!FetchedAtIsHonest /\ MI!OneScheduler
<1> SUFFICES ASSUME ModelsOK PROVE MI!FetchedAtIsHonest /\ MI!OneScheduler
  OBVIOUS
<1>1. MI!FetchedAtIsHonest
  BY DEF ModelsOK, RecordsAreHonest, Honest, MI!FetchedAtIsHonest, MI!Records
<1>2. ASSUME NEW h \in Hosts PROVE MI!Cardinality(running[h]) <= 1
  <2>1. CASE running[h] = {}
    BY <2>1, Cardinalities, FS_EmptySet
  <2>2. CASE running[h] # {}
    <3> PICK r \in running[h] : TRUE
      BY <2>2
    <3>1. running[h] = {r}
      BY DEF ModelsOK, HandlesAreHeld
    <3>2. Cardinality({r}) = 1
      BY FS_Singleton
    <3> QED
      BY <3>1, <3>2, Cardinalities
  <2> QED
    BY <2>1, <2>2
<1> QED
  BY <1>1, <1>2 DEF MI!OneScheduler

-----------------------------------------------------------------------------
(* What the recorder keeps, holds and counts (Recorder).                   *)

Kept ==
  [sessions : [Sessions -> {"unknown", "plain", "span"}], busy : SUBSET Sessions,
   pendingChats : SUBSET Sessions, chats : SUBSET Messages, tools : SUBSET ToolCalls,
   finalizedMessages : SUBSET Messages, finishedTools : SUBSET ToolCalls,
   responseLengths : SUBSET Messages, permissions : SUBSET Permissions,
   autoDecided : SUBSET Permissions, diffs : [Sessions -> Nat]]

HostSays ==
  [created : SUBSET Sessions, deleted : SUBSET Sessions, disposed : BOOLEAN,
   started : SUBSET RE!Items, ended : SUBSET RE!Items, settled : SUBSET RE!Items,
   repeated : SUBSET RE!Items, diff : [Sessions -> Nat], grown : [Sessions -> Nat]]

RecorderTypes ==
  /\ kept \in Kept /\ host \in HostSays /\ spans \in Int
  /\ counted \in [RE!Items -> 0..2] /\ lines \in [Sessions -> Nat]

Roots == {s \in Sessions : kept.sessions[s] = "span"}
OpenTools == kept.tools \ Filtered

\* The entries that hold a span are finitely many, and no session or call has two.
SpansAreHeld ==
  /\ IsFiniteSet(Roots) /\ IsFiniteSet(kept.pendingChats)
  /\ IsFiniteSet(kept.chats) /\ IsFiniteSet(OpenTools)
  /\ spans = Cardinality(Roots) + Cardinality(kept.pendingChats)
             + Cardinality(kept.chats) + Cardinality(OpenTools)
  /\ Roots \subseteq host.created /\ kept.tools \subseteq host.started

\* The ids of what has ended are kept until the session goes idle.
EndedIsRemembered ==
  /\ kept.finalizedMessages \cup kept.finishedTools \cup kept.autoDecided \subseteq host.ended
  /\ \A x \in Messages \cup ToolCalls :
       x \in host.ended \ host.settled /\ RE!Live(Owner[x])
         => x \in kept.finalizedMessages \cup kept.finishedTools
  /\ \A s \in Sessions : RE!Live(s) => kept.diffs[s] = host.diff[s]

RecorderOK ==
  RecorderTypes /\ SpansAreHeld /\ EndedIsRemembered /\ RE!CountedOnce /\ RE!NothingOfADeletedSession

LEMMA RecorderInit == RE!Init => RecorderOK
<1> SUFFICES ASSUME RE!Init PROVE RecorderOK
  OBVIOUS
<1>1. RecorderTypes
  BY DEF RE!Init, RecorderTypes, Kept, HostSays
<1>2. Roots = {} /\ kept.pendingChats = {} /\ kept.chats = {} /\ OpenTools = {} /\ kept.tools = {}
  BY DEF RE!Init, Roots, OpenTools
<1>3. SpansAreHeld
  BY <1>2, FS_EmptySet DEF RE!Init, SpansAreHeld
<1>4. EndedIsRemembered /\ RE!CountedOnce /\ RE!NothingOfADeletedSession
  BY RecorderAssumption DEF RecorderAssumption, RE!Init, EndedIsRemembered, RE!CountedOnce,
     RE!NothingOfADeletedSession, RE!Items
<1> QED
  BY <1>1, <1>3, <1>4 DEF RecorderOK

\* A session that is made without a span is a session without a span.
LEMMA SessionFields ==
  ASSUME RecorderTypes, NEW s \in Sessions, NEW k, k = RE!Session(s)
  PROVE /\ k \in Kept
        /\ k.sessions = [kept.sessions EXCEPT ![s] = IF @ = "unknown" THEN "plain" ELSE @]
        /\ k.busy = kept.busy /\ k.pendingChats = kept.pendingChats /\ k.chats = kept.chats
        /\ k.tools = kept.tools /\ k.finalizedMessages = kept.finalizedMessages
        /\ k.finishedTools = kept.finishedTools /\ k.responseLengths = kept.responseLengths
        /\ k.permissions = kept.permissions /\ k.autoDecided = kept.autoDecided
        /\ k.diffs = kept.diffs
  BY DEF RE!Session, RecorderTypes, Kept

\* A step on behalf of a live session leaves what is kept for the others alone.
OfOthers(k, s) ==
  <<[t \in Sessions \ {s} |-> k.sessions[t]], k.busy \ {s}, k.pendingChats \ {s},
    k.chats \ RE!Of(s), k.tools \ RE!Of(s), k.finalizedMessages \ RE!Of(s),
    k.finishedTools \ RE!Of(s), k.permissions \ RE!Of(s)>>

LEMMA OthersAlone ==
  ASSUME RecorderOK, NEW s \in Sessions, RE!Live(s), OfOthers(kept', s) = OfOthers(kept, s),
         host'.deleted = host.deleted, host'.disposed = host.disposed
  PROVE RE!NothingOfADeletedSession'
<1> SUFFICES ASSUME NEW t \in (host.deleted \ (IF host.disposed THEN Sessions ELSE {}))
             PROVE /\ kept'.sessions[t] = "unknown" /\ t \notin kept'.busy \cup kept'.pendingChats
                   /\ (kept'.chats \cup kept'.tools \cup kept'.finalizedMessages \cup kept'.finishedTools
                       \cup kept'.permissions) \cap RE!Of(t) = {}
  BY DEF RE!NothingOfADeletedSession, RE!Of, RE!Items
<1>1. t # s /\ t \in Sessions /\ RE!Of(t) \cap RE!Of(s) = {}
  BY DEF RE!Live, RE!Of, RecorderOK, RecorderTypes, HostSays
<1>2. kept'.sessions[t] = kept.sessions[t]
  <2>1. [u \in Sessions \ {s} |-> kept'.sessions[u]] = [u \in Sessions \ {s} |-> kept.sessions[u]]
    BY DEF OfOthers
  <2> QED
    BY <1>1, <2>1
<1>3. /\ kept'.busy \ {s} = kept.busy \ {s} /\ kept'.pendingChats \ {s} = kept.pendingChats \ {s}
      /\ kept'.chats \ RE!Of(s) = kept.chats \ RE!Of(s) /\ kept'.tools \ RE!Of(s) = kept.tools \ RE!Of(s)
      /\ kept'.finalizedMessages \ RE!Of(s) = kept.finalizedMessages \ RE!Of(s)
      /\ kept'.finishedTools \ RE!Of(s) = kept.finishedTools \ RE!Of(s)
      /\ kept'.permissions \ RE!Of(s) = kept.permissions \ RE!Of(s)
  BY DEF OfOthers
<1>4. /\ kept.sessions[t] = "unknown" /\ t \notin kept.busy \cup kept.pendingChats
      /\ (kept.chats \cup kept.tools \cup kept.finalizedMessages \cup kept.finishedTools
          \cup kept.permissions) \cap RE!Of(t) = {}
  BY DEF RecorderOK, RE!NothingOfADeletedSession
<1> QED
  BY <1>1, <1>2, <1>3, <1>4

\* A step that ends nothing, grows no diff and forgets nothing counts nothing.
Remembered(k) == <<k.finalizedMessages, k.finishedTools, k.autoDecided, k.diffs>>
Ending(h) == <<h.ended, h.settled, h.repeated, h.diff, h.grown, h.deleted, h.disposed>>

LEMMA NothingEnds ==
  ASSUME RecorderOK, Remembered(kept') = Remembered(kept), Ending(host') = Ending(host),
         UNCHANGED <<counted, lines>>
  PROVE EndedIsRemembered' /\ RE!CountedOnce'
  BY DEF RecorderOK, Remembered, Ending, EndedIsRemembered, RE!CountedOnce, RE!Live

\* The sets that hold spans, with one element more or less.
LEMMA OneMore ==
  ASSUME NEW S, NEW x, IsFiniteSet(S)
  PROVE /\ IsFiniteSet(S \cup {x}) /\ IsFiniteSet(S \ {x}) /\ Cardinality(S) \in Nat
        /\ x \notin S => Cardinality(S \cup {x}) = Cardinality(S) + 1 /\ S \ {x} = S
        /\ x \in S => Cardinality(S \ {x}) = Cardinality(S) - 1 /\ S \cup {x} = S
  BY FS_AddElement, FS_RemoveElement, FS_CardinalityType

LEMMA HeldCounts ==
  ASSUME SpansAreHeld
  PROVE /\ Cardinality(Roots) \in Nat /\ Cardinality(kept.pendingChats) \in Nat
        /\ Cardinality(kept.chats) \in Nat /\ Cardinality(OpenTools) \in Nat
  BY FS_CardinalityType DEF SpansAreHeld

\* The sessions and the calls hold what they held, the chats something else.
LEMMA ChatsHeld ==
  ASSUME SpansAreHeld, Roots' = Roots, OpenTools' = OpenTools, kept'.tools = kept.tools,
         host'.created = host.created, host'.started = host.started,
         NEW p, NEW c, kept'.pendingChats = p, kept'.chats = c, IsFiniteSet(p), IsFiniteSet(c),
         spans' - Cardinality(p) - Cardinality(c)
           = spans - Cardinality(kept.pendingChats) - Cardinality(kept.chats),
         spans \in Int, spans' \in Int
  PROVE SpansAreHeld'
<1>1. Cardinality(p) \in Nat /\ Cardinality(c) \in Nat
  <2>1. Cardinality(p) \in Nat
    BY FS_CardinalityType
  <2>2. Cardinality(c) \in Nat
    BY FS_CardinalityType
  <2> QED
    BY <2>1, <2>2
<1>2. spans' = Cardinality(Roots) + Cardinality(p) + Cardinality(c) + Cardinality(OpenTools)
  BY <1>1, HeldCounts DEF SpansAreHeld
<1>3. /\ IsFiniteSet(Roots') /\ IsFiniteSet(kept'.pendingChats) /\ IsFiniteSet(kept'.chats)
      /\ IsFiniteSet(OpenTools') /\ Roots' \subseteq host'.created /\ kept'.tools \subseteq host'.started
  BY DEF SpansAreHeld
<1>4. spans' = Cardinality(Roots') + Cardinality(kept'.pendingChats)
               + Cardinality(kept'.chats) + Cardinality(OpenTools')
  BY <1>2
<1> QED
  BY <1>3, <1>4 DEF SpansAreHeld

LEMMA OwnerIsSession ==
  /\ \A x \in RE!Items : Owner[x] \in Sessions /\ x \in RE!Of(Owner[x])
  /\ Messages \subseteq RE!Items /\ ToolCalls \subseteq RE!Items /\ Permissions \subseteq RE!Items
  BY RecorderAssumption DEF RecorderAssumption, RE!Items, RE!Of

LEMMA CreatedStep ==
  ASSUME RecorderOK, NEW s \in Sessions, RE!SessionCreated(s)
  PROVE RecorderOK'
<1>1. /\ RE!Live(s) /\ s \notin host.created /\ kept' = [kept EXCEPT !.sessions[s] = "span", !.busy = @ \ {s}]
      /\ spans' = spans + 1 /\ host' = [host EXCEPT !.created = @ \cup {s}] /\ UNCHANGED <<counted, lines>>
  BY DEF RE!SessionCreated
<1>2. RecorderTypes /\ SpansAreHeld
  BY DEF RecorderOK
<1>3. /\ kept' \in Kept /\ kept'.sessions = [kept.sessions EXCEPT ![s] = "span"] /\ kept'.busy = kept.busy \ {s}
      /\ kept'.pendingChats = kept.pendingChats /\ kept'.chats = kept.chats /\ kept'.tools = kept.tools
      /\ kept'.permissions = kept.permissions /\ Remembered(kept') = Remembered(kept)
  BY <1>1, <1>2 DEF RecorderTypes, Kept, Remembered
<1>4. host' \in HostSays /\ Ending(host') = Ending(host) /\ host'.started = host.started
      /\ host'.created = host.created \cup {s}
  BY <1>1, <1>2 DEF RecorderTypes, HostSays, Ending
<1>5. RecorderTypes'
  BY <1>1, <1>2, <1>3, <1>4 DEF RecorderTypes
<1>6. SpansAreHeld'
  <2>1. Roots' = Roots \cup {s} /\ s \notin Roots /\ OpenTools' = OpenTools
    BY <1>1, <1>2, <1>3 DEF Roots, OpenTools, RecorderTypes, Kept, SpansAreHeld
  <2>2. IsFiniteSet(Roots') /\ Cardinality(Roots') = Cardinality(Roots) + 1 /\ Cardinality(Roots) \in Nat
    BY <1>2, <2>1, OneMore DEF SpansAreHeld
  <2> QED
    BY <1>1, <1>2, <1>3, <1>4, <2>1, <2>2, HeldCounts DEF SpansAreHeld, RecorderTypes
<1>7. EndedIsRemembered' /\ RE!CountedOnce'
  BY <1>1, <1>3, <1>4, NothingEnds
<1>8. RE!NothingOfADeletedSession'
  <2>1. OfOthers(kept', s) = OfOthers(kept, s)
    BY <1>2, <1>3 DEF OfOthers, Remembered, RecorderTypes, Kept
  <2> QED
    BY <1>1, <1>4, <2>1, OthersAlone DEF Ending
<1> QED
  BY <1>5, <1>6, <1>7, <1>8 DEF RecorderOK

\* Whatever makes the state of a session only so that it has one.
LEMMA MentionStep ==
  ASSUME RecorderOK, NEW s \in Sessions,
         \/ RE!Mention(s)
         \/ \E status \in {"busy", "retry", "idle"} : RE!SessionStatus(s, status)
         \/ \E m \in Messages : Owner[m] = s /\ RE!TextComplete(m)
  PROVE RecorderOK'
<1> DEFINE k == RE!Session(s)
<1>1. RecorderTypes /\ SpansAreHeld
  BY DEF RecorderOK
<1>2. /\ k \in Kept
      /\ k.sessions = [kept.sessions EXCEPT ![s] = IF @ = "unknown" THEN "plain" ELSE @]
      /\ k.busy = kept.busy /\ k.pendingChats = kept.pendingChats /\ k.chats = kept.chats
      /\ k.tools = kept.tools /\ k.finalizedMessages = kept.finalizedMessages
      /\ k.finishedTools = kept.finishedTools /\ k.responseLengths = kept.responseLengths
      /\ k.permissions = kept.permissions /\ k.autoDecided = kept.autoDecided
      /\ k.diffs = kept.diffs
  BY <1>1, SessionFields
<1> HIDE DEF k
<1>3. RE!Live(s) /\ UNCHANGED <<spans, counted, lines, host>>
  BY DEF RE!Mention, RE!SessionStatus, RE!TextComplete
<1>4. \/ kept' = k
      \/ \E b \in {kept.busy \cup {s}, kept.busy, kept.busy \ {s}} : kept' = [k EXCEPT !.busy = b]
      \/ \E m \in Messages : kept' = [kept EXCEPT !.responseLengths = @ \cup {m}]
  BY <1>2 DEF RE!Mention, RE!SessionStatus, RE!TextComplete, k
<1>5. /\ kept' \in Kept /\ Remembered(kept') = Remembered(kept)
      /\ kept'.sessions \in {kept.sessions, k.sessions}
      /\ kept'.busy \in {kept.busy \cup {s}, kept.busy, kept.busy \ {s}}
      /\ kept'.pendingChats = kept.pendingChats /\ kept'.chats = kept.chats /\ kept'.tools = kept.tools
      /\ kept'.permissions = kept.permissions
  <2>1. CASE kept' = k
    BY <1>2, <2>1 DEF Remembered
  <2>2. CASE \E b \in {kept.busy \cup {s}, kept.busy, kept.busy \ {s}} : kept' = [k EXCEPT !.busy = b]
    BY <1>1, <1>2, <2>2 DEF Remembered, RecorderTypes, Kept
  <2>3. CASE \E m \in Messages : kept' = [kept EXCEPT !.responseLengths = @ \cup {m}]
    BY <1>1, <2>3 DEF Remembered, RecorderTypes, Kept
  <2> QED
    BY <1>4, <2>1, <2>2, <2>3
<1>6. RecorderTypes'
  BY <1>1, <1>3, <1>5 DEF RecorderTypes
<1>7. SpansAreHeld'
  <2>1. Roots' = Roots /\ OpenTools' = OpenTools
    BY <1>1, <1>2, <1>5 DEF Roots, OpenTools, RecorderTypes, Kept
  <2> QED
    BY <1>1, <1>3, <1>5, <2>1 DEF SpansAreHeld
<1>8. EndedIsRemembered' /\ RE!CountedOnce'
  BY <1>3, <1>5, NothingEnds DEF Ending
<1>9. RE!NothingOfADeletedSession'
  <2>1. OfOthers(kept', s) = OfOthers(kept, s)
    BY <1>1, <1>2, <1>5 DEF OfOthers, Remembered, RecorderTypes, Kept
  <2> QED
    BY <1>3, <2>1, OthersAlone
<1> QED
  BY <1>6, <1>7, <1>8, <1>9 DEF RecorderOK

LEMMA PruneFields ==
  ASSUME NEW k \in Kept, NEW s \in Sessions, NEW g, g = RE!Prune(k, s)
  PROVE /\ g \in Kept /\ g.sessions = k.sessions /\ g.busy = k.busy
        /\ g.pendingChats = k.pendingChats /\ g.chats = k.chats /\ g.tools = k.tools
        /\ g.permissions = k.permissions /\ g.autoDecided = k.autoDecided /\ g.diffs = k.diffs
        /\ g.finalizedMessages = k.finalizedMessages \ RE!Of(s)
        /\ g.finishedTools = k.finishedTools \ RE!Of(s)
  BY DEF RE!Prune, Kept

LEMMA IdleStep ==
  ASSUME RecorderOK, NEW s \in Sessions, RE!SessionIdle(s)
  PROVE RecorderOK'
<1>1. RecorderTypes /\ SpansAreHeld /\ EndedIsRemembered /\ RE!Live(s)
  BY DEF RecorderOK, RE!SessionIdle
<1>2. CASE UNCHANGED <<kept, spans, host, counted, lines>>
  BY <1>2 DEF RecorderOK, RecorderTypes, SpansAreHeld, EndedIsRemembered, RE!CountedOnce,
     RE!NothingOfADeletedSession, RE!Live, Roots, OpenTools
<1>3. CASE /\ kept' = RE!Prune([kept EXCEPT !.sessions[s] = "unknown", !.busy = @ \ {s}], s)
           /\ spans' = spans - RE!SpanOf(s)
           /\ host' = [host EXCEPT !.settled = @ \cup (host.ended \cap RE!Of(s))]
           /\ UNCHANGED <<counted, lines>>
  <2> DEFINE k == [kept EXCEPT !.sessions[s] = "unknown", !.busy = @ \ {s}]
  <2>1. /\ k \in Kept /\ k.sessions = [kept.sessions EXCEPT ![s] = "unknown"] /\ k.busy = kept.busy \ {s}
        /\ k.pendingChats = kept.pendingChats /\ k.chats = kept.chats /\ k.tools = kept.tools
        /\ k.permissions = kept.permissions /\ k.autoDecided = kept.autoDecided /\ k.diffs = kept.diffs
        /\ k.finalizedMessages = kept.finalizedMessages /\ k.finishedTools = kept.finishedTools
    BY <1>1 DEF RecorderTypes, Kept
  <2>2. kept' = RE!Prune(k, s)
    BY <1>3
  <2> HIDE DEF k
  <2>3. /\ kept' \in Kept /\ kept'.sessions = [kept.sessions EXCEPT ![s] = "unknown"] /\ kept'.busy = kept.busy \ {s}
        /\ kept'.pendingChats = kept.pendingChats /\ kept'.chats = kept.chats /\ kept'.tools = kept.tools
        /\ kept'.permissions = kept.permissions /\ kept'.autoDecided = kept.autoDecided /\ kept'.diffs = kept.diffs
        /\ kept'.finalizedMessages = kept.finalizedMessages \ RE!Of(s)
        /\ kept'.finishedTools = kept.finishedTools \ RE!Of(s)
    BY <2>1, <2>2, PruneFields
  <2>4. /\ host' \in HostSays /\ host'.settled = host.settled \cup (host.ended \cap RE!Of(s))
        /\ host'.created = host.created /\ host'.started = host.started /\ host'.ended = host.ended
        /\ host'.repeated = host.repeated /\ host'.diff = host.diff /\ host'.grown = host.grown
        /\ host'.deleted = host.deleted /\ host'.disposed = host.disposed
    BY <1>1, <1>3 DEF RecorderTypes, HostSays, RE!Of
  <2>5. spans' = spans - (IF s \in Roots THEN 1 ELSE 0)
    BY <1>3 DEF RE!SpanOf, Roots
  <2>6. RecorderTypes'
    BY <1>1, <1>3, <2>3, <2>4, <2>5 DEF RecorderTypes
  <2>7. SpansAreHeld'
    <3>1. Roots' = Roots \ {s} /\ OpenTools' = OpenTools
      BY <1>1, <2>3 DEF Roots, OpenTools, RecorderTypes, Kept
    <3>2. /\ IsFiniteSet(Roots \ {s})
          /\ Cardinality(Roots \ {s}) = IF s \in Roots THEN Cardinality(Roots) - 1 ELSE Cardinality(Roots)
      BY <1>1, FS_RemoveElement DEF SpansAreHeld
    <3> QED
      BY <1>1, <2>3, <2>4, <2>5, <3>1, <3>2, HeldCounts DEF SpansAreHeld, RecorderTypes
  <2>8. EndedIsRemembered'
    <3>1. \A x \in Messages \cup ToolCalls :
            x \in host.ended \ host'.settled => x \notin RE!Of(s) /\ x \in host.ended \ host.settled
      BY <2>4
    <3>2. \A t \in Sessions : RE!Live(t)' <=> RE!Live(t)
      BY <2>4 DEF RE!Live
    <3> QED
      BY <1>1, <2>3, <2>4, <3>1, <3>2, OwnerIsSession DEF EndedIsRemembered
  <2>9. RE!CountedOnce'
    BY <1>3, <2>4 DEF RecorderOK, RE!CountedOnce
  <2>10. RE!NothingOfADeletedSession'
    <3>1. OfOthers(kept', s) = OfOthers(kept, s)
      BY <1>1, <2>3 DEF OfOthers, RecorderTypes, Kept
    <3> QED
      BY <1>1, <2>4, <3>1, OthersAlone
  <2> QED
    BY <2>6, <2>7, <2>8, <2>9, <2>10 DEF RecorderOK
<1> QED
  BY <1>2, <1>3 DEF RE!SessionIdle

LEMMA DiffStep ==
  ASSUME RecorderOK, NEW s \in Sessions, NEW n \in 0..MaxLines, RE!SessionDiff(s, n)
  PROVE RecorderOK'
<1> DEFINE k == RE!Session(s)
           grew(old) == IF n > old THEN n - old ELSE 0
<1>1. RecorderTypes /\ SpansAreHeld /\ EndedIsRemembered /\ RE!CountedOnce /\ RE!Live(s) /\ n \in Nat
  BY RecorderAssumption DEF RecorderOK, RE!SessionDiff, RecorderAssumption
<1>2. /\ k \in Kept
      /\ k.sessions = [kept.sessions EXCEPT ![s] = IF @ = "unknown" THEN "plain" ELSE @]
      /\ k.busy = kept.busy /\ k.pendingChats = kept.pendingChats /\ k.chats = kept.chats
      /\ k.tools = kept.tools /\ k.finalizedMessages = kept.finalizedMessages
      /\ k.finishedTools = kept.finishedTools /\ k.responseLengths = kept.responseLengths
      /\ k.permissions = kept.permissions /\ k.autoDecided = kept.autoDecided
      /\ k.diffs = kept.diffs
  BY <1>1, SessionFields
<1>3. /\ kept' = [k EXCEPT !.diffs[s] = n] /\ lines' = [lines EXCEPT ![s] = @ + grew(kept.diffs[s])]
      /\ host' = [host EXCEPT !.diff[s] = n, !.grown[s] = @ + grew(host.diff[s])]
      /\ UNCHANGED <<spans, counted>>
  BY DEF RE!SessionDiff
<1>4. kept.diffs[s] = host.diff[s] /\ kept.diffs[s] \in Nat /\ grew(host.diff[s]) \in Nat
  BY <1>1 DEF EndedIsRemembered, RecorderTypes, Kept
<1> HIDE DEF k, grew
<1>5. /\ kept' \in Kept /\ kept'.diffs = [kept.diffs EXCEPT ![s] = n] /\ kept'.sessions = k.sessions
      /\ kept'.busy = kept.busy /\ kept'.pendingChats = kept.pendingChats /\ kept'.chats = kept.chats
      /\ kept'.tools = kept.tools /\ kept'.finalizedMessages = kept.finalizedMessages
      /\ kept'.finishedTools = kept.finishedTools /\ kept'.permissions = kept.permissions
      /\ kept'.autoDecided = kept.autoDecided
  BY <1>1, <1>2, <1>3 DEF Kept
<1>6. /\ host' \in HostSays /\ host'.diff = [host.diff EXCEPT ![s] = n]
      /\ host'.grown = [host.grown EXCEPT ![s] = @ + grew(host.diff[s])]
      /\ host'.created = host.created /\ host'.started = host.started /\ host'.ended = host.ended
      /\ host'.repeated = host.repeated /\ host'.settled = host.settled
      /\ host'.deleted = host.deleted /\ host'.disposed = host.disposed
  <2> DEFINE d == [host.diff EXCEPT ![s] = n]
             w == [host.grown EXCEPT ![s] = @ + grew(host.diff[s])]
  <2>1. host \in HostSays /\ d \in [Sessions -> Nat] /\ w \in [Sessions -> Nat]
    BY <1>1, <1>4 DEF RecorderTypes, HostSays
  <2>2. host' = [host EXCEPT !.diff = d, !.grown = w]
    BY <1>3
  <2> HIDE DEF d, w
  <2>3. /\ host' \in HostSays /\ host'.diff = d /\ host'.grown = w
        /\ host'.created = host.created /\ host'.started = host.started /\ host'.ended = host.ended
        /\ host'.repeated = host.repeated /\ host'.settled = host.settled
        /\ host'.deleted = host.deleted /\ host'.disposed = host.disposed
    BY <2>1, <2>2 DEF HostSays
  <2> QED
    BY <2>3 DEF d, w
<1>7. RecorderTypes'
  BY <1>1, <1>3, <1>4, <1>5, <1>6 DEF RecorderTypes
<1>8. SpansAreHeld'
  <2>1. Roots' = Roots /\ OpenTools' = OpenTools
    BY <1>1, <1>2, <1>5 DEF Roots, OpenTools, RecorderTypes, Kept
  <2> QED
    BY <1>1, <1>3, <1>5, <1>6, <2>1 DEF SpansAreHeld
<1>9. EndedIsRemembered'
  BY <1>1, <1>5, <1>6 DEF EndedIsRemembered, RE!Live, RecorderTypes, Kept, HostSays
<1>10. RE!CountedOnce'
  BY <1>1, <1>3, <1>4, <1>6 DEF RE!CountedOnce, RecorderTypes, HostSays
<1>11. RE!NothingOfADeletedSession'
  <2>1. OfOthers(kept', s) = OfOthers(kept, s)
    BY <1>1, <1>2, <1>5 DEF OfOthers, RecorderTypes, Kept
  <2> QED
    BY <1>1, <1>6, <2>1, OthersAlone
<1> QED
  BY <1>7, <1>8, <1>9, <1>10, <1>11 DEF RecorderOK

\* A message or a call ends: it is marked and counted, unless it was before.
Marked(k) == k.finalizedMessages \cup k.finishedTools

LEMMA EndsFields ==
  ASSUME RecorderTypes, NEW x \in RE!Items, RE!Ends(x)
  PROVE /\ host' \in HostSays /\ host'.ended = host.ended \cup {x}
        /\ host'.repeated = IF x \in host.settled THEN host.repeated \cup {x} ELSE host.repeated
        /\ host'.settled = host.settled /\ host'.created = host.created /\ host'.started = host.started
        /\ host'.diff = host.diff /\ host'.grown = host.grown
        /\ host'.deleted = host.deleted /\ host'.disposed = host.disposed
  BY DEF RE!Ends, RecorderTypes, HostSays

LEMMA CountFields ==
  ASSUME RecorderTypes, NEW x \in RE!Items, RE!Count(x)
  PROVE /\ counted' \in [RE!Items -> 0..2]
        /\ \A y \in RE!Items : y # x => counted'[y] = counted[y]
        /\ counted[x] = 0 => counted'[x] = 1
<1>1. counted \in [RE!Items -> 0..2] /\ counted' = [counted EXCEPT ![x] = IF @ < 2 THEN @ + 1 ELSE 2]
  BY DEF RE!Count, RecorderTypes
<1>2. (IF counted[x] < 2 THEN counted[x] + 1 ELSE 2) \in 0..2
  BY <1>1
<1> QED
  BY <1>1, <1>2

LEMMA EndedOnce ==
  ASSUME RecorderOK, NEW x \in Messages \cup ToolCalls, RE!Live(Owner[x]), RE!Ends(x),
         UNCHANGED lines, kept'.autoDecided = kept.autoDecided, kept'.diffs = kept.diffs,
         Marked(kept') = Marked(kept) \cup {x},
         IF x \in Marked(kept) THEN UNCHANGED counted ELSE RE!Count(x)
  PROVE EndedIsRemembered' /\ RE!CountedOnce' /\ counted' \in [RE!Items -> 0..2]
<1>1. RecorderTypes /\ EndedIsRemembered /\ RE!CountedOnce /\ x \in RE!Items
  BY OwnerIsSession DEF RecorderOK
<1>2. /\ host' \in HostSays /\ host'.ended = host.ended \cup {x}
      /\ host'.repeated = IF x \in host.settled THEN host.repeated \cup {x} ELSE host.repeated
      /\ host'.settled = host.settled /\ host'.diff = host.diff /\ host'.grown = host.grown
      /\ host'.deleted = host.deleted /\ host'.disposed = host.disposed
  BY <1>1, EndsFields
<1>3. \A s \in Sessions : RE!Live(s)' <=> RE!Live(s)
  BY <1>2 DEF RE!Live
<1>4. /\ Marked(kept) \subseteq host.ended
      /\ \A y \in Messages \cup ToolCalls :
           y \in host.ended /\ y \notin host.settled /\ RE!Live(Owner[y]) => y \in Marked(kept)
  BY <1>1 DEF EndedIsRemembered, Marked
<1>5. EndedIsRemembered'
  <2>1. Marked(kept') \cup kept'.autoDecided \subseteq host'.ended
    BY <1>1, <1>2, <1>4 DEF EndedIsRemembered
  <2>2. \A y \in Messages \cup ToolCalls :
          y \in host'.ended /\ y \notin host'.settled /\ RE!Live(Owner[y]) => y \in Marked(kept')
    BY <1>2, <1>4
  <2>3. \A y \in Messages \cup ToolCalls : Owner[y] \in Sessions
    BY OwnerIsSession
  <2>4. \A s \in Sessions : RE!Live(s) => kept'.diffs[s] = host'.diff[s]
    BY <1>1, <1>2 DEF EndedIsRemembered
  <2> QED
    BY <1>3, <2>1, <2>2, <2>3, <2>4 DEF EndedIsRemembered, Marked
<1>6. counted' \in [RE!Items -> 0..2] /\ \A y \in RE!Items : y # x => counted'[y] = counted[y]
  BY <1>1, CountFields DEF RecorderTypes
<1>7. x \notin host'.repeated => counted'[x] = 1
  <2> SUFFICES ASSUME x \notin host'.repeated PROVE counted'[x] = 1
    OBVIOUS
  <2>1. x \notin host.settled /\ x \notin host.repeated
    BY <1>2
  <2>2. counted[x] = IF x \in host.ended THEN 1 ELSE 0
    BY <1>1, <2>1 DEF RE!CountedOnce
  <2>3. CASE x \in Marked(kept)
    BY <1>4, <2>2, <2>3
  <2>4. CASE x \notin Marked(kept)
    <3>1. counted[x] = 0
      BY <1>4, <2>1, <2>2, <2>4
    <3> QED
      BY <1>1, <2>4, <3>1, CountFields
  <2> QED
    BY <2>3, <2>4
<1>8. RE!CountedOnce'
  <2>1. ASSUME NEW y \in RE!Items \ host'.repeated
        PROVE counted'[y] = IF y \in host'.ended THEN 1 ELSE 0
    <3>1. CASE y = x
      BY <1>2, <1>7, <2>1, <3>1
    <3>2. CASE y # x
      BY <1>1, <1>2, <1>6, <2>1, <3>2 DEF RE!CountedOnce
    <3> QED
      BY <3>1, <3>2
  <2>2. \A s \in Sessions : lines'[s] = host'.grown[s]
    BY <1>1, <1>2 DEF RE!CountedOnce
  <2> QED
    BY <2>1, <2>2 DEF RE!CountedOnce
<1> QED
  BY <1>5, <1>6, <1>8

LEMMA ChatFields ==
  ASSUME RecorderTypes, NEW m \in Messages, NEW g, g = RE!WithChat(m)
  PROVE /\ g \in Kept
        /\ g.sessions = [kept.sessions EXCEPT ![Owner[m]] = IF @ = "unknown" THEN "plain" ELSE @]
        /\ g.chats = kept.chats \cup {m}
        /\ g.pendingChats = IF m \in kept.chats THEN kept.pendingChats ELSE kept.pendingChats \ {Owner[m]}
        /\ g.busy = kept.busy /\ g.tools = kept.tools /\ g.finalizedMessages = kept.finalizedMessages
        /\ g.finishedTools = kept.finishedTools /\ g.permissions = kept.permissions
        /\ g.autoDecided = kept.autoDecided /\ g.diffs = kept.diffs
<1> DEFINE k == RE!Session(Owner[m])
           p == IF m \in kept.chats THEN k.pendingChats ELSE k.pendingChats \ {Owner[m]}
<1>1. Owner[m] \in Sessions
  BY OwnerIsSession
<1>2. /\ k \in Kept
      /\ k.sessions = [kept.sessions EXCEPT ![Owner[m]] = IF @ = "unknown" THEN "plain" ELSE @]
      /\ k.busy = kept.busy /\ k.pendingChats = kept.pendingChats /\ k.chats = kept.chats
      /\ k.tools = kept.tools /\ k.finalizedMessages = kept.finalizedMessages
      /\ k.finishedTools = kept.finishedTools /\ k.responseLengths = kept.responseLengths
      /\ k.permissions = kept.permissions /\ k.autoDecided = kept.autoDecided
      /\ k.diffs = kept.diffs
  BY <1>1, SessionFields
<1>3. g = [k EXCEPT !.chats = @ \cup {m}, !.pendingChats = p]
  BY DEF RE!WithChat
<1>4. p \in SUBSET Sessions
  BY <1>2 DEF Kept
<1>5. p = IF m \in kept.chats THEN kept.pendingChats ELSE kept.pendingChats \ {Owner[m]}
  BY <1>2
<1>k. k \in Kept
  BY <1>2
<1> HIDE DEF k, p
<1>6. /\ g \in Kept /\ g.chats = k.chats \cup {m} /\ g.pendingChats = p /\ g.sessions = k.sessions
      /\ g.busy = k.busy /\ g.tools = k.tools /\ g.finalizedMessages = k.finalizedMessages
      /\ g.finishedTools = k.finishedTools /\ g.permissions = k.permissions
      /\ g.autoDecided = k.autoDecided /\ g.diffs = k.diffs
  <2> DEFINE c == k.chats \cup {m}
  <2>1. c \in SUBSET Messages /\ g = [k EXCEPT !.chats = c, !.pendingChats = p]
    BY <1>3, <1>k DEF Kept
  <2> HIDE DEF c
  <2>2. /\ g \in Kept /\ g.chats = c /\ g.pendingChats = p /\ g.sessions = k.sessions
        /\ g.busy = k.busy /\ g.tools = k.tools /\ g.finalizedMessages = k.finalizedMessages
        /\ g.finishedTools = k.finishedTools /\ g.permissions = k.permissions
        /\ g.autoDecided = k.autoDecided /\ g.diffs = k.diffs
    BY <1>4, <1>k, <2>1 DEF Kept
  <2> QED
    BY <2>2 DEF c
<1> QED
  BY <1>2, <1>5, <1>6

LEMMA ChatCounts ==
  ASSUME SpansAreHeld, NEW m \in Messages, NEW pending,
         pending = IF m \in kept.chats THEN kept.pendingChats ELSE kept.pendingChats \ {Owner[m]}
  PROVE /\ IsFiniteSet(pending) /\ IsFiniteSet(kept.chats \cup {m}) /\ IsFiniteSet(kept.chats \ {m})
        /\ Cardinality(pending) + Cardinality(kept.chats \cup {m})
             = Cardinality(kept.pendingChats) + Cardinality(kept.chats) + RE!NewSpan(m)
        /\ Cardinality(kept.chats \ {m}) = Cardinality(kept.chats \cup {m}) - 1
        /\ Cardinality(pending) \in Nat /\ Cardinality(kept.chats \ {m}) \in Nat
<1>1. IsFiniteSet(kept.chats) /\ IsFiniteSet(kept.pendingChats)
  BY DEF SpansAreHeld
<1>2. /\ IsFiniteSet(kept.chats \cup {m}) /\ IsFiniteSet(kept.chats \ {m})
      /\ Cardinality(kept.chats \cup {m}) = IF m \in kept.chats THEN Cardinality(kept.chats) ELSE Cardinality(kept.chats) + 1
      /\ Cardinality(kept.chats \ {m}) = IF m \in kept.chats THEN Cardinality(kept.chats) - 1 ELSE Cardinality(kept.chats)
  BY <1>1, FS_AddElement, FS_RemoveElement
<1>3. /\ IsFiniteSet(kept.pendingChats \ {Owner[m]})
      /\ Cardinality(kept.pendingChats \ {Owner[m]})
           = IF Owner[m] \in kept.pendingChats THEN Cardinality(kept.pendingChats) - 1
                                               ELSE Cardinality(kept.pendingChats)
  BY <1>1, FS_RemoveElement
<1>4. Cardinality(kept.chats) \in Nat /\ Cardinality(kept.pendingChats) \in Nat
  BY HeldCounts
<1>5. IsFiniteSet(pending) /\ Cardinality(pending) \in Nat /\ Cardinality(kept.chats \ {m}) \in Nat
  <2>1. IsFiniteSet(pending)
    BY <1>1, <1>3
  <2>2. Cardinality(pending) \in Nat
    BY <2>1, FS_CardinalityType
  <2>3. Cardinality(kept.chats \ {m}) \in Nat
    BY <1>2, FS_CardinalityType
  <2> QED
    BY <2>1, <2>2, <2>3
<1> QED
  BY <1>2, <1>3, <1>4, <1>5 DEF RE!NewSpan

LEMMA MessageStep ==
  ASSUME RecorderOK, NEW m \in Messages, RE!MessageUpdated(m) \/ RE!MessageCompleted(m)
  PROVE RecorderOK'
<1> DEFINE s == Owner[m]
           g == RE!WithChat(m)
           pending == IF m \in kept.chats THEN kept.pendingChats ELSE kept.pendingChats \ {Owner[m]}
<1>1. /\ RecorderTypes /\ SpansAreHeld /\ s \in Sessions /\ m \in RE!Items /\ m \in RE!Of(s)
      /\ m \notin ToolCalls
  BY OwnerIsSession, RecorderAssumption DEF RecorderOK, RecorderAssumption
<1>2. /\ g \in Kept
      /\ g.sessions = [kept.sessions EXCEPT ![s] = IF @ = "unknown" THEN "plain" ELSE @]
      /\ g.chats = kept.chats \cup {m}
      /\ g.pendingChats = pending
      /\ g.busy = kept.busy /\ g.tools = kept.tools /\ g.finalizedMessages = kept.finalizedMessages
      /\ g.finishedTools = kept.finishedTools /\ g.permissions = kept.permissions
      /\ g.autoDecided = kept.autoDecided /\ g.diffs = kept.diffs
  BY <1>1, ChatFields
<1>3. /\ IsFiniteSet(pending) /\ IsFiniteSet(kept.chats \cup {m}) /\ IsFiniteSet(kept.chats \ {m})
      /\ Cardinality(pending) + Cardinality(kept.chats \cup {m})
           = Cardinality(kept.pendingChats) + Cardinality(kept.chats) + RE!NewSpan(m)
      /\ Cardinality(kept.chats \ {m}) = Cardinality(kept.chats \cup {m}) - 1
      /\ Cardinality(pending) \in Nat /\ Cardinality(kept.chats \ {m}) \in Nat
  BY <1>1, ChatCounts
<1>4. /\ Cardinality(Roots) \in Nat /\ Cardinality(kept.pendingChats) \in Nat
      /\ Cardinality(kept.chats) \in Nat /\ Cardinality(OpenTools) \in Nat
      /\ RE!NewSpan(m) \in {0, 1}
      /\ spans = Cardinality(Roots) + Cardinality(kept.pendingChats)
                 + Cardinality(kept.chats) + Cardinality(OpenTools)
  BY <1>1, HeldCounts DEF SpansAreHeld, RE!NewSpan
<1>5. /\ pending \subseteq kept.pendingChats /\ kept.pendingChats \ {s} \subseteq pending
  OBVIOUS
<1> HIDE DEF g, pending
<1>6. CASE RE!MessageUpdated(m)
  <2>1. RE!Live(s) /\ kept' = g /\ spans' = spans + RE!NewSpan(m) /\ UNCHANGED <<counted, lines, host>>
    BY <1>6 DEF RE!MessageUpdated, g
  <2>2. RecorderTypes'
    BY <1>1, <1>2, <1>4, <2>1 DEF RecorderTypes
  <2>3. SpansAreHeld'
    <3>1. Roots' = Roots /\ OpenTools' = OpenTools
      BY <1>1, <1>2, <2>1 DEF Roots, OpenTools, RecorderTypes, Kept
    <3>2. kept'.chats = kept.chats \cup {m} /\ kept'.pendingChats = pending /\ kept'.tools = kept.tools
      BY <1>2, <2>1
    <3>3. spans' - Cardinality(pending) - Cardinality(kept.chats \cup {m})
            = spans - Cardinality(kept.pendingChats) - Cardinality(kept.chats)
          /\ spans \in Int /\ spans' \in Int
      <4>1. Cardinality(kept.chats \cup {m}) \in Nat
        BY <1>3, FS_CardinalityType
      <4> QED
        BY <1>3, <1>4, <2>1, <4>1
    <3> QED
      BY <1>1, <1>3, <2>1, <3>1, <3>2, <3>3, ChatsHeld
  <2>4. EndedIsRemembered' /\ RE!CountedOnce'
    BY <1>2, <2>1, NothingEnds DEF Remembered, Ending
  <2>5. RE!NothingOfADeletedSession'
    <3>1. OfOthers(kept', s) = OfOthers(kept, s)
      BY <1>1, <1>2, <1>5, <2>1 DEF OfOthers, RecorderTypes, Kept
    <3> QED
      BY <1>1, <2>1, <3>1, OthersAlone
  <2> QED
    BY <2>2, <2>3, <2>4, <2>5 DEF RecorderOK
<1>7. CASE RE!MessageCompleted(m)
  <2>1. RE!Live(s) /\ RE!Ends(m) /\ UNCHANGED lines
    BY <1>7 DEF RE!MessageCompleted
  <2>2. /\ host' \in HostSays /\ host'.created = host.created /\ host'.started = host.started
        /\ host'.deleted = host.deleted /\ host'.disposed = host.disposed
    BY <1>1, <2>1, EndsFields
  <2>3. m \in Marked(kept) <=> m \in kept.finalizedMessages
    BY <1>1 DEF Marked, RecorderTypes, Kept
  <2>4. CASE m \in kept.finalizedMessages /\ UNCHANGED <<kept, spans, counted>>
    <3>1. Marked(kept') = Marked(kept) \cup {m}
      BY <2>3, <2>4 DEF Marked
    <3>2. EndedIsRemembered' /\ RE!CountedOnce'
      BY <2>1, <2>3, <2>4, <3>1, EndedOnce
    <3>3. RecorderTypes' /\ SpansAreHeld'
      BY <1>1, <2>1, <2>2, <2>4 DEF RecorderTypes, SpansAreHeld, Roots, OpenTools
    <3>4. RE!NothingOfADeletedSession'
      BY <1>1, <2>1, <2>2, <2>4, OthersAlone DEF OfOthers
    <3> QED
      BY <3>2, <3>3, <3>4 DEF RecorderOK
  <2>5. CASE /\ m \notin kept.finalizedMessages /\ spans' = spans + RE!NewSpan(m) - 1 /\ RE!Count(m)
             /\ kept' = [g EXCEPT !.finalizedMessages = @ \cup {m}, !.chats = @ \ {m}, !.responseLengths = @ \ {m}]
    <3>1. /\ kept' \in Kept /\ kept'.finalizedMessages = kept.finalizedMessages \cup {m}
          /\ kept'.chats = kept.chats \ {m} /\ kept'.pendingChats = pending /\ kept'.sessions = g.sessions
          /\ kept'.busy = kept.busy /\ kept'.tools = kept.tools /\ kept'.finishedTools = kept.finishedTools
          /\ kept'.permissions = kept.permissions /\ kept'.autoDecided = kept.autoDecided /\ kept'.diffs = kept.diffs
      BY <1>2, <2>5 DEF Kept
    <3>2. Marked(kept') = Marked(kept) \cup {m}
      BY <3>1 DEF Marked
    <3>3. EndedIsRemembered' /\ RE!CountedOnce' /\ counted' \in [RE!Items -> 0..2]
      BY <2>1, <2>3, <2>5, <3>1, <3>2, EndedOnce
    <3>4. RecorderTypes'
      BY <1>1, <1>4, <2>1, <2>2, <2>5, <3>1, <3>3 DEF RecorderTypes
    <3>5. SpansAreHeld'
      <4>1. Roots' = Roots /\ OpenTools' = OpenTools
        BY <1>1, <1>2, <3>1 DEF Roots, OpenTools, RecorderTypes, Kept
      <4>2. spans' - Cardinality(pending) - Cardinality(kept.chats \ {m})
              = spans - Cardinality(kept.pendingChats) - Cardinality(kept.chats)
            /\ spans \in Int /\ spans' \in Int
        <5>1. Cardinality(kept.chats \cup {m}) \in Nat
          BY <1>3, FS_CardinalityType
        <5> QED
          BY <1>3, <1>4, <2>5, <5>1
      <4> QED
        BY <1>1, <1>3, <2>2, <3>1, <4>1, <4>2, ChatsHeld
    <3>6. RE!NothingOfADeletedSession'
      <4>1. OfOthers(kept', s) = OfOthers(kept, s)
        BY <1>1, <1>2, <1>5, <3>1 DEF OfOthers, RecorderTypes, Kept
      <4> QED
        BY <1>1, <2>1, <2>2, <4>1, OthersAlone
    <3> QED
      BY <3>3, <3>4, <3>5, <3>6 DEF RecorderOK
  <2> QED
    BY <1>7, <2>4, <2>5 DEF RE!MessageCompleted, g
<1> QED
  BY <1>6, <1>7

LEMMA ParamsStep ==
  ASSUME RecorderOK, NEW s \in Sessions, RE!ChatParams(s)
  PROVE RecorderOK'
<1> DEFINE k == RE!Session(s)
<1>1. RecorderTypes /\ SpansAreHeld /\ RE!Live(s)
  BY DEF RecorderOK, RE!ChatParams
<1>2. /\ k \in Kept
      /\ k.sessions = [kept.sessions EXCEPT ![s] = IF @ = "unknown" THEN "plain" ELSE @]
      /\ k.busy = kept.busy /\ k.pendingChats = kept.pendingChats /\ k.chats = kept.chats
      /\ k.tools = kept.tools /\ k.finalizedMessages = kept.finalizedMessages
      /\ k.finishedTools = kept.finishedTools /\ k.responseLengths = kept.responseLengths
      /\ k.permissions = kept.permissions /\ k.autoDecided = kept.autoDecided
      /\ k.diffs = kept.diffs
  BY <1>1, SessionFields
<1>3. /\ kept' = [k EXCEPT !.pendingChats = @ \cup {s}] /\ UNCHANGED <<counted, lines, host>>
      /\ spans' = IF s \in kept.pendingChats THEN spans ELSE spans + 1
  BY DEF RE!ChatParams
<1> HIDE DEF k
<1>4. /\ kept' \in Kept /\ kept'.pendingChats = kept.pendingChats \cup {s} /\ kept'.sessions = k.sessions
      /\ kept'.busy = kept.busy /\ kept'.chats = kept.chats /\ kept'.tools = kept.tools
      /\ kept'.permissions = kept.permissions /\ Remembered(kept') = Remembered(kept)
  BY <1>2, <1>3 DEF Kept, Remembered
<1>5. RecorderTypes'
  BY <1>1, <1>3, <1>4 DEF RecorderTypes
<1>6. SpansAreHeld'
  <2>1. Roots' = Roots /\ OpenTools' = OpenTools
    BY <1>1, <1>2, <1>4 DEF Roots, OpenTools, RecorderTypes, Kept
  <2>2. /\ IsFiniteSet(kept.pendingChats \cup {s})
        /\ Cardinality(kept.pendingChats \cup {s})
             = IF s \in kept.pendingChats THEN Cardinality(kept.pendingChats) ELSE Cardinality(kept.pendingChats) + 1
    BY <1>1, FS_AddElement DEF SpansAreHeld
  <2>3. spans' - Cardinality(kept.pendingChats \cup {s}) - Cardinality(kept.chats)
          = spans - Cardinality(kept.pendingChats) - Cardinality(kept.chats)
        /\ spans \in Int /\ spans' \in Int /\ IsFiniteSet(kept.chats)
    BY <1>1, <1>3, <2>2, HeldCounts DEF SpansAreHeld, RecorderTypes
  <2> QED
    BY <1>1, <1>3, <1>4, <2>1, <2>2, <2>3, ChatsHeld
<1>7. EndedIsRemembered' /\ RE!CountedOnce'
  BY <1>3, <1>4, NothingEnds DEF Ending
<1>8. RE!NothingOfADeletedSession'
  <2>1. OfOthers(kept', s) = OfOthers(kept, s)
    BY <1>1, <1>2, <1>4 DEF OfOthers, Remembered, RecorderTypes, Kept
  <2> QED
    BY <1>1, <1>3, <2>1, OthersAlone
<1> QED
  BY <1>5, <1>6, <1>7, <1>8 DEF RecorderOK

\* The calls hold something else, the rest what it held.
LEMMA ToolsHeld ==
  ASSUME SpansAreHeld, Roots' = Roots, kept'.pendingChats = kept.pendingChats,
         kept'.chats = kept.chats, host'.created = host.created, kept'.tools \subseteq host'.started,
         NEW o, OpenTools' = o, IsFiniteSet(o), spans \in Int, spans' \in Int,
         spans' - Cardinality(o) = spans - Cardinality(OpenTools)
  PROVE SpansAreHeld'
<1>1. Cardinality(o) \in Nat
  BY FS_CardinalityType
<1>2. spans' = Cardinality(Roots) + Cardinality(kept.pendingChats) + Cardinality(kept.chats) + Cardinality(o)
  BY <1>1, HeldCounts DEF SpansAreHeld
<1>3. /\ IsFiniteSet(Roots') /\ IsFiniteSet(kept'.pendingChats) /\ IsFiniteSet(kept'.chats)
      /\ IsFiniteSet(OpenTools') /\ Roots' \subseteq host'.created /\ kept'.tools \subseteq host'.started
  BY DEF SpansAreHeld
<1>4. spans' = Cardinality(Roots') + Cardinality(kept'.pendingChats)
               + Cardinality(kept'.chats) + Cardinality(OpenTools')
  BY <1>2
<1> QED
  BY <1>3, <1>4 DEF SpansAreHeld

LEMMA ToolBeforeStep ==
  ASSUME RecorderOK, NEW c \in ToolCalls, RE!ToolBefore(c)
  PROVE RecorderOK'
<1> DEFINE s == Owner[c]
           k == RE!Session(s)
<1>1. RecorderTypes /\ SpansAreHeld /\ RE!Live(s) /\ s \in Sessions /\ c \in RE!Items /\ c \in RE!Of(s)
  BY OwnerIsSession DEF RecorderOK, RE!ToolBefore
<1>2. /\ k \in Kept
      /\ k.sessions = [kept.sessions EXCEPT ![s] = IF @ = "unknown" THEN "plain" ELSE @]
      /\ k.busy = kept.busy /\ k.pendingChats = kept.pendingChats /\ k.chats = kept.chats
      /\ k.tools = kept.tools /\ k.finalizedMessages = kept.finalizedMessages
      /\ k.finishedTools = kept.finishedTools /\ k.responseLengths = kept.responseLengths
      /\ k.permissions = kept.permissions /\ k.autoDecided = kept.autoDecided
      /\ k.diffs = kept.diffs
  BY <1>1, SessionFields
<1>3. /\ c \notin host.started /\ kept' = [k EXCEPT !.tools = @ \cup {c}]
      /\ spans' = (IF c \in Filtered THEN spans ELSE spans + 1)
      /\ host' = [host EXCEPT !.started = @ \cup {c}] /\ UNCHANGED <<counted, lines>>
  BY DEF RE!ToolBefore
<1> HIDE DEF k
<1>4. /\ kept' \in Kept /\ kept'.tools = kept.tools \cup {c} /\ kept'.sessions = k.sessions
      /\ kept'.busy = kept.busy /\ kept'.pendingChats = kept.pendingChats /\ kept'.chats = kept.chats
      /\ kept'.permissions = kept.permissions /\ Remembered(kept') = Remembered(kept)
  BY <1>2, <1>3 DEF Kept, Remembered
<1>5. /\ host' \in HostSays /\ host'.started = host.started \cup {c} /\ host'.created = host.created
      /\ Ending(host') = Ending(host)
  BY <1>1, <1>3 DEF RecorderTypes, HostSays, Ending
<1>6. RecorderTypes'
  BY <1>1, <1>3, <1>4, <1>5 DEF RecorderTypes
<1>7. SpansAreHeld'
  <2>1. Roots' = Roots
    BY <1>1, <1>2, <1>4 DEF Roots, RecorderTypes, Kept
  <2>2. c \notin OpenTools /\ IsFiniteSet(OpenTools) /\ kept'.tools \subseteq host'.started
    BY <1>1, <1>3, <1>4, <1>5 DEF SpansAreHeld, OpenTools
  <2>3. IsFiniteSet(OpenTools \cup {c}) /\ Cardinality(OpenTools \cup {c}) = Cardinality(OpenTools) + 1
    BY <2>2, FS_AddElement
  <2>4. spans \in Int /\ spans' \in Int /\ Cardinality(OpenTools) \in Nat
    BY <1>1, <1>3, HeldCounts DEF RecorderTypes
  <2>5. CASE c \in Filtered
    <3>1. OpenTools' = OpenTools /\ spans' = spans
      BY <1>3, <1>4, <2>5 DEF OpenTools
    <3> QED
      BY <1>1, <1>4, <1>5, <2>1, <2>2, <2>4, <3>1, ToolsHeld
  <2>6. CASE c \notin Filtered
    <3>1. OpenTools' = OpenTools \cup {c} /\ spans' = spans + 1
      BY <1>3, <1>4, <2>6 DEF OpenTools
    <3>2. spans' - Cardinality(OpenTools \cup {c}) = spans - Cardinality(OpenTools)
      BY <2>3, <2>4, <3>1
    <3> QED
      BY <1>1, <1>4, <1>5, <2>1, <2>2, <2>3, <2>4, <3>1, <3>2, ToolsHeld
  <2> QED
    BY <2>5, <2>6
<1>8. EndedIsRemembered' /\ RE!CountedOnce'
  BY <1>3, <1>4, <1>5, NothingEnds
<1>9. RE!NothingOfADeletedSession'
  <2>1. OfOthers(kept', s) = OfOthers(kept, s)
    BY <1>1, <1>2, <1>4 DEF OfOthers, Remembered, RecorderTypes, Kept
  <2> QED
    BY <1>1, <1>5, <2>1, OthersAlone DEF Ending
<1> QED
  BY <1>6, <1>7, <1>8, <1>9 DEF RecorderOK

LEMMA FinishToolStep ==
  ASSUME RecorderOK, NEW c \in ToolCalls, RE!Finish(c)
  PROVE RecorderOK'
<1> DEFINE s == Owner[c]
           k == RE!Session(s)
<1>1. /\ RecorderTypes /\ SpansAreHeld /\ s \in Sessions /\ c \in RE!Items /\ c \in RE!Of(s)
      /\ c \notin Messages
  BY OwnerIsSession, RecorderAssumption DEF RecorderOK, RecorderAssumption
<1>2. /\ k \in Kept
      /\ k.sessions = [kept.sessions EXCEPT ![s] = IF @ = "unknown" THEN "plain" ELSE @]
      /\ k.busy = kept.busy /\ k.pendingChats = kept.pendingChats /\ k.chats = kept.chats
      /\ k.tools = kept.tools /\ k.finalizedMessages = kept.finalizedMessages
      /\ k.finishedTools = kept.finishedTools /\ k.responseLengths = kept.responseLengths
      /\ k.permissions = kept.permissions /\ k.autoDecided = kept.autoDecided
      /\ k.diffs = kept.diffs
  BY <1>1, SessionFields
<1>3. RE!Live(s) /\ RE!Ends(c) /\ UNCHANGED lines
  BY DEF RE!Finish
<1>4. /\ host' \in HostSays /\ host'.created = host.created /\ host'.started = host.started
      /\ host'.deleted = host.deleted /\ host'.disposed = host.disposed
  BY <1>1, <1>3, EndsFields
<1>5. c \in Marked(kept) <=> c \in kept.finishedTools
  BY <1>1 DEF Marked, RecorderTypes, Kept
<1>6. CASE c \in kept.finishedTools /\ UNCHANGED <<kept, spans, counted>>
  <2>1. Marked(kept') = Marked(kept) \cup {c}
    BY <1>5, <1>6 DEF Marked
  <2>2. EndedIsRemembered' /\ RE!CountedOnce'
    BY <1>3, <1>5, <1>6, <2>1, EndedOnce
  <2>3. RecorderTypes' /\ SpansAreHeld'
    BY <1>1, <1>3, <1>4, <1>6 DEF RecorderTypes, SpansAreHeld, Roots, OpenTools
  <2>4. RE!NothingOfADeletedSession'
    BY <1>1, <1>3, <1>4, <1>6, OthersAlone DEF OfOthers
  <2> QED
    BY <2>2, <2>3, <2>4 DEF RecorderOK
<1>7. CASE /\ c \notin kept.finishedTools /\ RE!Count(c)
           /\ kept' = [k EXCEPT !.tools = @ \ {c}, !.finishedTools = @ \cup {c}]
           /\ spans' = (IF c \in kept.tools \ Filtered THEN spans - 1 ELSE spans)
  <2> HIDE DEF k
  <2>1. /\ kept' \in Kept /\ kept'.tools = kept.tools \ {c} /\ kept'.finishedTools = kept.finishedTools \cup {c}
        /\ kept'.chats = kept.chats /\ kept'.pendingChats = kept.pendingChats /\ kept'.sessions = k.sessions
        /\ kept'.busy = kept.busy /\ kept'.finalizedMessages = kept.finalizedMessages
        /\ kept'.permissions = kept.permissions /\ kept'.autoDecided = kept.autoDecided /\ kept'.diffs = kept.diffs
    BY <1>2, <1>7 DEF Kept
  <2>2. Marked(kept') = Marked(kept) \cup {c}
    BY <2>1 DEF Marked
  <2>3. EndedIsRemembered' /\ RE!CountedOnce' /\ counted' \in [RE!Items -> 0..2]
    BY <1>3, <1>5, <1>7, <2>1, <2>2, EndedOnce
  <2>4. spans \in Int /\ spans' \in Int /\ Cardinality(OpenTools) \in Nat
    BY <1>1, <1>7, HeldCounts DEF RecorderTypes
  <2>5. RecorderTypes'
    BY <1>1, <1>3, <1>4, <2>1, <2>3, <2>4 DEF RecorderTypes
  <2>6. SpansAreHeld'
    <3>1. Roots' = Roots /\ OpenTools' = OpenTools \ {c}
      BY <1>1, <1>2, <2>1 DEF Roots, OpenTools, RecorderTypes, Kept
    <3>2. /\ IsFiniteSet(OpenTools \ {c})
          /\ Cardinality(OpenTools \ {c})
               = IF c \in OpenTools THEN Cardinality(OpenTools) - 1 ELSE Cardinality(OpenTools)
      BY <1>1, FS_RemoveElement DEF SpansAreHeld
    <3>3. spans' - Cardinality(OpenTools \ {c}) = spans - Cardinality(OpenTools)
      BY <1>7, <2>4, <3>2 DEF OpenTools
    <3>4. kept'.tools \subseteq host'.started
      BY <1>1, <1>4, <2>1 DEF SpansAreHeld
    <3> QED
      BY <1>1, <1>4, <2>1, <2>4, <3>1, <3>2, <3>3, <3>4, ToolsHeld
  <2>7. RE!NothingOfADeletedSession'
    <3>1. OfOthers(kept', s) = OfOthers(kept, s)
      BY <1>1, <1>2, <2>1 DEF OfOthers, RecorderTypes, Kept
    <3> QED
      BY <1>1, <1>3, <1>4, <3>1, OthersAlone
  <2> QED
    BY <2>3, <2>5, <2>6, <2>7 DEF RecorderOK
<1> QED
  BY <1>6, <1>7 DEF RE!Finish

\* A prompt is decided once.
LEMMA DecidedOnce ==
  ASSUME RecorderOK, NEW p \in Permissions, p \notin host.ended, RE!Count(p), UNCHANGED lines,
         Marked(kept') = Marked(kept), kept'.autoDecided \subseteq kept.autoDecided \cup {p},
         kept'.diffs = kept.diffs, host' = [host EXCEPT !.ended = @ \cup {p}]
  PROVE EndedIsRemembered' /\ RE!CountedOnce' /\ counted' \in [RE!Items -> 0..2] /\ host' \in HostSays
<1>1. /\ RecorderTypes /\ EndedIsRemembered /\ RE!CountedOnce /\ p \in RE!Items
      /\ p \notin Messages \cup ToolCalls
  BY OwnerIsSession, RecorderAssumption DEF RecorderOK, RecorderAssumption
<1>2. /\ host' \in HostSays /\ host'.ended = host.ended \cup {p} /\ host'.repeated = host.repeated
      /\ host'.settled = host.settled /\ host'.diff = host.diff /\ host'.grown = host.grown
      /\ host'.deleted = host.deleted /\ host'.disposed = host.disposed
  BY <1>1 DEF RecorderTypes, HostSays
<1>3. \A s \in Sessions : RE!Live(s)' <=> RE!Live(s)
  BY <1>2 DEF RE!Live
<1>4. EndedIsRemembered'
  BY <1>1, <1>2, <1>3, OwnerIsSession DEF EndedIsRemembered, Marked
<1>5. /\ counted' \in [RE!Items -> 0..2] /\ \A y \in RE!Items : y # p => counted'[y] = counted[y]
      /\ counted[p] = 0 => counted'[p] = 1
  BY <1>1, CountFields
<1>6. RE!CountedOnce'
  BY <1>1, <1>2, <1>5 DEF RE!CountedOnce
<1> QED
  BY <1>2, <1>4, <1>5, <1>6

LEMMA PermissionStep ==
  ASSUME RecorderOK, NEW p \in Permissions,
         RE!PermissionUpdated(p) \/ RE!PermissionAsk(p) \/ RE!PermissionReplied(p)
  PROVE RecorderOK'
<1> DEFINE s == Owner[p]
           k == RE!Session(s)
<1>1. /\ RecorderTypes /\ SpansAreHeld /\ EndedIsRemembered /\ RE!CountedOnce /\ s \in Sessions
      /\ p \in RE!Items /\ p \in RE!Of(s)
  BY OwnerIsSession DEF RecorderOK
<1>2. /\ k \in Kept
      /\ k.sessions = [kept.sessions EXCEPT ![s] = IF @ = "unknown" THEN "plain" ELSE @]
      /\ k.busy = kept.busy /\ k.pendingChats = kept.pendingChats /\ k.chats = kept.chats
      /\ k.tools = kept.tools /\ k.finalizedMessages = kept.finalizedMessages
      /\ k.finishedTools = kept.finishedTools /\ k.responseLengths = kept.responseLengths
      /\ k.permissions = kept.permissions /\ k.autoDecided = kept.autoDecided
      /\ k.diffs = kept.diffs
  BY <1>1, SessionFields
<1>3. RE!Live(s) /\ UNCHANGED <<spans, lines>>
  BY DEF RE!PermissionUpdated, RE!PermissionAsk, RE!PermissionReplied
<1> HIDE DEF k
\* The rest of the argument is common to the four cases.
<1>4. ASSUME kept' \in Kept, kept'.sessions \in {kept.sessions, k.sessions}, kept'.busy = kept.busy,
             kept'.pendingChats = kept.pendingChats, kept'.chats = kept.chats, kept'.tools = kept.tools,
             kept'.finalizedMessages = kept.finalizedMessages, kept'.finishedTools = kept.finishedTools,
             kept'.permissions \ {p} = kept.permissions \ {p},
             host' \in HostSays, host.started \subseteq host'.started, host'.created = host.created,
             host'.deleted = host.deleted, host'.disposed = host.disposed,
             counted' \in [RE!Items -> 0..2], EndedIsRemembered', RE!CountedOnce'
      PROVE RecorderOK'
  <2>1. RecorderTypes'
    BY <1>1, <1>3, <1>4 DEF RecorderTypes
  <2>2. SpansAreHeld'
    <3>1. Roots' = Roots /\ OpenTools' = OpenTools
      BY <1>1, <1>2, <1>4 DEF Roots, OpenTools, RecorderTypes, Kept
    <3> QED
      BY <1>1, <1>3, <1>4, <3>1 DEF SpansAreHeld
  <2>3. RE!NothingOfADeletedSession'
    <3>1. OfOthers(kept', s) = OfOthers(kept, s)
      BY <1>1, <1>2, <1>4 DEF OfOthers, RecorderTypes, Kept
    <3> QED
      BY <1>1, <1>3, <1>4, <3>1, OthersAlone
  <2> QED
    BY <1>4, <2>1, <2>2, <2>3 DEF RecorderOK
<1>5. CASE RE!PermissionUpdated(p)
  <2>1. /\ kept' = [kept EXCEPT !.permissions = @ \cup {p}] /\ host' = [host EXCEPT !.started = @ \cup {p}]
        /\ UNCHANGED <<counted, lines>>
    BY <1>5 DEF RE!PermissionUpdated
  <2>2. /\ kept' \in Kept /\ kept'.permissions = kept.permissions \cup {p} /\ kept'.sessions = kept.sessions
        /\ kept'.busy = kept.busy /\ kept'.pendingChats = kept.pendingChats /\ kept'.chats = kept.chats
        /\ kept'.tools = kept.tools /\ kept'.finalizedMessages = kept.finalizedMessages
        /\ kept'.finishedTools = kept.finishedTools /\ Remembered(kept') = Remembered(kept)
    BY <1>1, <2>1 DEF RecorderTypes, Kept, Remembered
  <2>3. /\ host' \in HostSays /\ host.started \subseteq host'.started /\ host'.created = host.created
        /\ host'.deleted = host.deleted /\ host'.disposed = host.disposed /\ Ending(host') = Ending(host)
    BY <1>1, <2>1 DEF RecorderTypes, HostSays, Ending
  <2>4. EndedIsRemembered' /\ RE!CountedOnce'
    BY <2>1, <2>2, <2>3, NothingEnds
  <2>5. counted' \in [RE!Items -> 0..2]
    BY <1>1, <2>1 DEF RecorderTypes
  <2> QED
    BY <1>4, <2>2, <2>3, <2>4, <2>5
<1>6. CASE RE!PermissionAsk(p)
  <2>1. /\ p \notin host.ended /\ host' = [host EXCEPT !.ended = @ \cup {p}] /\ RE!Count(p)
        /\ kept' = [k EXCEPT !.autoDecided = @ \cup {p}]
    BY <1>6 DEF RE!PermissionAsk, k
  <2>2. /\ kept' \in Kept /\ kept'.permissions = kept.permissions /\ kept'.sessions = k.sessions
        /\ kept'.busy = kept.busy /\ kept'.pendingChats = kept.pendingChats /\ kept'.chats = kept.chats
        /\ kept'.tools = kept.tools /\ kept'.finalizedMessages = kept.finalizedMessages
        /\ kept'.finishedTools = kept.finishedTools /\ kept'.autoDecided = kept.autoDecided \cup {p}
        /\ kept'.diffs = kept.diffs /\ Marked(kept') = Marked(kept)
    BY <1>2, <2>1 DEF Kept, Marked
  <2>3. EndedIsRemembered' /\ RE!CountedOnce' /\ counted' \in [RE!Items -> 0..2] /\ host' \in HostSays
    BY <1>3, <2>1, <2>2, DecidedOnce
  <2>4. /\ host'.started = host.started /\ host'.created = host.created
        /\ host'.deleted = host.deleted /\ host'.disposed = host.disposed
    BY <1>1, <2>1 DEF RecorderTypes, HostSays
  <2> QED
    BY <1>4, <2>2, <2>3, <2>4
<1>7. CASE /\ p \in kept.autoDecided /\ host' = [host EXCEPT !.ended = @ \cup {p}]
           /\ kept' = [kept EXCEPT !.autoDecided = @ \ {p}] /\ UNCHANGED counted
  <2>1. /\ kept' \in Kept /\ kept'.permissions = kept.permissions /\ kept'.sessions = kept.sessions
        /\ kept'.busy = kept.busy /\ kept'.pendingChats = kept.pendingChats /\ kept'.chats = kept.chats
        /\ kept'.tools = kept.tools /\ kept'.finalizedMessages = kept.finalizedMessages
        /\ kept'.finishedTools = kept.finishedTools /\ kept'.autoDecided = kept.autoDecided \ {p}
        /\ kept'.diffs = kept.diffs
    BY <1>1, <1>7 DEF RecorderTypes, Kept
  <2>2. host' = host
    <3>1. host.ended \cup {p} = host.ended
      BY <1>1, <1>7 DEF EndedIsRemembered
    <3> QED
      BY <1>1, <1>7, <3>1 DEF RecorderTypes, HostSays
  <2>3. EndedIsRemembered' /\ RE!CountedOnce'
    BY <1>1, <1>3, <1>7, <2>1, <2>2 DEF EndedIsRemembered, RE!CountedOnce, RE!Live
  <2>4. host' \in HostSays /\ counted' \in [RE!Items -> 0..2]
    BY <1>1, <1>7, <2>2 DEF RecorderTypes
  <2> QED
    BY <1>4, <2>1, <2>2, <2>3, <2>4
<1>8. CASE /\ p \notin kept.autoDecided /\ p \in host.started \ host.ended
           /\ host' = [host EXCEPT !.ended = @ \cup {p}]
           /\ kept' = [k EXCEPT !.permissions = @ \ {p}] /\ RE!Count(p)
  <2>1. /\ kept' \in Kept /\ kept'.permissions = kept.permissions \ {p} /\ kept'.sessions = k.sessions
        /\ kept'.busy = kept.busy /\ kept'.pendingChats = kept.pendingChats /\ kept'.chats = kept.chats
        /\ kept'.tools = kept.tools /\ kept'.finalizedMessages = kept.finalizedMessages
        /\ kept'.finishedTools = kept.finishedTools /\ kept'.autoDecided = kept.autoDecided
        /\ kept'.diffs = kept.diffs /\ Marked(kept') = Marked(kept)
    BY <1>2, <1>8 DEF Kept, Marked
  <2>2. EndedIsRemembered' /\ RE!CountedOnce' /\ counted' \in [RE!Items -> 0..2] /\ host' \in HostSays
    BY <1>3, <1>8, <2>1, DecidedOnce
  <2>3. /\ host'.started = host.started /\ host'.created = host.created
        /\ host'.deleted = host.deleted /\ host'.disposed = host.disposed
    BY <1>1, <1>8 DEF RecorderTypes, HostSays
  <2> QED
    BY <1>4, <2>1, <2>2, <2>3
<1> QED
  BY <1>5, <1>6, <1>7, <1>8 DEF RE!PermissionReplied, k

\* What a deleted session held is what is taken away.
LEMMA ForgottenCounts ==
  ASSUME RecorderTypes, SpansAreHeld, NEW s \in Sessions
  PROVE /\ IsFiniteSet(Roots \ {s}) /\ IsFiniteSet(kept.pendingChats \ {s})
        /\ IsFiniteSet(kept.chats \ RE!Of(s)) /\ IsFiniteSet(OpenTools \ RE!Of(s))
        /\ spans - RE!ForgottenSpans(s)
            = Cardinality(Roots \ {s}) + Cardinality(kept.pendingChats \ {s})
              + Cardinality(kept.chats \ RE!Of(s)) + Cardinality(OpenTools \ RE!Of(s))
        /\ RE!ForgottenSpans(s) \in Int
<1> DEFINE heldChats == kept.chats \cap RE!Of(s)
           heldTools == OpenTools \cap RE!Of(s)
           pending == kept.pendingChats \cap {s}
<1>1. IsFiniteSet(Roots \ {s}) /\ Cardinality(Roots \ {s}) = Cardinality(Roots) - RE!SpanOf(s)
  <2>1. RE!SpanOf(s) = IF s \in Roots THEN 1 ELSE 0
    BY DEF RE!SpanOf, Roots
  <2>2. Cardinality(Roots) \in Nat
    BY HeldCounts
  <2> QED
    BY <2>1, <2>2, FS_RemoveElement DEF SpansAreHeld
<1>2. /\ IsFiniteSet(kept.pendingChats \ {s})
      /\ Cardinality(kept.pendingChats \ {s}) = Cardinality(kept.pendingChats) - Cardinality(pending)
  BY FS_Difference DEF SpansAreHeld
<1>3. /\ IsFiniteSet(kept.chats \ RE!Of(s))
      /\ Cardinality(kept.chats \ RE!Of(s)) = Cardinality(kept.chats) - Cardinality(heldChats)
  BY FS_Difference DEF SpansAreHeld
<1>4. /\ IsFiniteSet(OpenTools \ RE!Of(s))
      /\ Cardinality(OpenTools \ RE!Of(s)) = Cardinality(OpenTools) - Cardinality(heldTools)
  BY FS_Difference DEF SpansAreHeld
<1>5. IsFiniteSet(heldChats) /\ IsFiniteSet(heldTools) /\ IsFiniteSet(pending)
  BY FS_Intersection DEF SpansAreHeld
<1>6. heldChats \cap heldTools = {}
  BY RecorderAssumption DEF RecorderAssumption, OpenTools, RecorderTypes, Kept
<1> HIDE DEF heldChats, heldTools, pending
<1>7. Cardinality(heldChats \cup heldTools) = Cardinality(heldChats) + Cardinality(heldTools)
  <2>1. Cardinality(heldChats \cup heldTools)
          = Cardinality(heldChats) + Cardinality(heldTools) - Cardinality(heldChats \cap heldTools)
    BY <1>5, FS_Union
  <2>2. Cardinality(heldChats \cap heldTools) = 0
    BY <1>6, FS_EmptySet
  <2>3. Cardinality(heldChats) \in Nat /\ Cardinality(heldTools) \in Nat
    BY <1>5, FS_CardinalityType
  <2> QED
    BY <2>1, <2>2, <2>3
<1>8. (kept.chats \cup (kept.tools \ Filtered)) \cap RE!Of(s) = heldChats \cup heldTools
  BY DEF heldChats, heldTools, OpenTools
<1>9. RE!ForgottenSpans(s) = RE!SpanOf(s) + Cardinality(pending) + Cardinality(heldChats) + Cardinality(heldTools)
  <2>1. RE!ForgottenSpans(s) = RE!SpanOf(s) + Cardinality(pending) + Cardinality(heldChats \cup heldTools)
    BY <1>8, Cardinalities DEF RE!ForgottenSpans, pending
  <2>2. /\ Cardinality(pending) \in Nat /\ Cardinality(heldChats) \in Nat /\ Cardinality(heldTools) \in Nat
        /\ RE!SpanOf(s) \in Nat
    BY <1>5, FS_CardinalityType DEF RE!SpanOf
  <2> QED
    BY <1>7, <2>1, <2>2
<1>10. /\ Cardinality(pending) \in Nat /\ Cardinality(heldChats) \in Nat /\ Cardinality(heldTools) \in Nat
       /\ RE!SpanOf(s) \in Nat
  BY <1>5, FS_CardinalityType DEF RE!SpanOf
<1> QED
  BY <1>1, <1>2, <1>3, <1>4, <1>9, <1>10, HeldCounts DEF SpansAreHeld

LEMMA DeletedStep ==
  ASSUME RecorderOK, NEW s \in Sessions, RE!SessionDeleted(s)
  PROVE RecorderOK'
<1> DEFINE mine == kept.permissions \cap RE!Of(s)
           k == [kept EXCEPT !.sessions[s] = "unknown", !.busy = @ \ {s},
                      !.pendingChats = @ \ {s}, !.chats = @ \ RE!Of(s), !.tools = @ \ RE!Of(s),
                      !.diffs[s] = 0,
                      !.permissions = @ \ RE!Of(s),
                      !.autoDecided = @ \ (kept.permissions \cap RE!Of(s))]
<1>1. RecorderTypes /\ SpansAreHeld /\ EndedIsRemembered /\ RE!CountedOnce /\ RE!Live(s)
  BY DEF RecorderOK, RE!SessionDeleted
<1>2. /\ kept' = RE!Prune(k, s) /\ spans' = spans - RE!ForgottenSpans(s)
      /\ host' = [host EXCEPT !.deleted = @ \cup {s}] /\ UNCHANGED <<counted, lines>>
  BY DEF RE!SessionDeleted
<1>3. /\ k \in Kept /\ k.sessions = [kept.sessions EXCEPT ![s] = "unknown"] /\ k.busy = kept.busy \ {s}
      /\ k.pendingChats = kept.pendingChats \ {s} /\ k.chats = kept.chats \ RE!Of(s)
      /\ k.tools = kept.tools \ RE!Of(s) /\ k.permissions = kept.permissions \ RE!Of(s)
      /\ k.autoDecided \subseteq kept.autoDecided /\ k.diffs = [kept.diffs EXCEPT ![s] = 0]
      /\ k.finalizedMessages = kept.finalizedMessages /\ k.finishedTools = kept.finishedTools
  <2> DEFINE se == [kept.sessions EXCEPT ![s] = "unknown"]
             di == [kept.diffs EXCEPT ![s] = 0]
             bu == kept.busy \ {s}
             pe == kept.pendingChats \ {s}
             ch == kept.chats \ RE!Of(s)
             to == kept.tools \ RE!Of(s)
             pm == kept.permissions \ RE!Of(s)
             au == kept.autoDecided \ (kept.permissions \cap RE!Of(s))
  <2>1. /\ kept \in Kept /\ se \in [Sessions -> {"unknown", "plain", "span"}] /\ di \in [Sessions -> Nat]
        /\ bu \in SUBSET Sessions /\ pe \in SUBSET Sessions /\ ch \in SUBSET Messages
        /\ to \in SUBSET ToolCalls /\ pm \in SUBSET Permissions /\ au \in SUBSET Permissions
    BY <1>1 DEF RecorderTypes, Kept
  <2>2. k = [kept EXCEPT !.sessions = se, !.busy = bu, !.pendingChats = pe, !.chats = ch, !.tools = to,
                         !.diffs = di, !.permissions = pm, !.autoDecided = au]
    BY <2>1 DEF Kept
  <2> HIDE DEF se, di, bu, pe, ch, to, pm, au, k
  <2>3. /\ k \in Kept /\ k.sessions = se /\ k.busy = bu /\ k.pendingChats = pe /\ k.chats = ch
        /\ k.tools = to /\ k.permissions = pm /\ k.autoDecided = au /\ k.diffs = di
        /\ k.finalizedMessages = kept.finalizedMessages /\ k.finishedTools = kept.finishedTools
    BY <2>1, <2>2 DEF Kept
  <2> QED
    BY <2>3 DEF se, di, bu, pe, ch, to, pm, au
<1> HIDE DEF k
<1>4. /\ kept' \in Kept /\ kept'.sessions = [kept.sessions EXCEPT ![s] = "unknown"] /\ kept'.busy = kept.busy \ {s}
      /\ kept'.pendingChats = kept.pendingChats \ {s} /\ kept'.chats = kept.chats \ RE!Of(s)
      /\ kept'.tools = kept.tools \ RE!Of(s) /\ kept'.permissions = kept.permissions \ RE!Of(s)
      /\ kept'.autoDecided \subseteq kept.autoDecided /\ kept'.diffs = [kept.diffs EXCEPT ![s] = 0]
      /\ kept'.finalizedMessages = kept.finalizedMessages \ RE!Of(s)
      /\ kept'.finishedTools = kept.finishedTools \ RE!Of(s)
  BY <1>2, <1>3, PruneFields
<1>5. /\ host' \in HostSays /\ host'.deleted = host.deleted \cup {s}
      /\ host'.created = host.created /\ host'.started = host.started /\ host'.ended = host.ended
      /\ host'.repeated = host.repeated /\ host'.settled = host.settled /\ host'.diff = host.diff
      /\ host'.grown = host.grown /\ host'.disposed = host.disposed
  BY <1>1, <1>2 DEF RecorderTypes, HostSays
<1>6. /\ IsFiniteSet(Roots \ {s}) /\ IsFiniteSet(kept.pendingChats \ {s})
      /\ IsFiniteSet(kept.chats \ RE!Of(s)) /\ IsFiniteSet(OpenTools \ RE!Of(s))
      /\ spans' = Cardinality(Roots \ {s}) + Cardinality(kept.pendingChats \ {s})
                   + Cardinality(kept.chats \ RE!Of(s)) + Cardinality(OpenTools \ RE!Of(s))
      /\ RE!ForgottenSpans(s) \in Int
  BY <1>1, <1>2, ForgottenCounts
<1>7. RecorderTypes'
  BY <1>1, <1>2, <1>4, <1>5, <1>6 DEF RecorderTypes
<1>8. SpansAreHeld'
  <2>1. Roots' = Roots \ {s} /\ OpenTools' = OpenTools \ RE!Of(s)
    BY <1>1, <1>4 DEF Roots, OpenTools, RecorderTypes, Kept
  <2>2. Roots' \subseteq host'.created /\ kept'.tools \subseteq host'.started
    BY <1>1, <1>4, <1>5, <2>1 DEF SpansAreHeld
  <2>3. spans' = Cardinality(Roots') + Cardinality(kept'.pendingChats)
                 + Cardinality(kept'.chats) + Cardinality(OpenTools')
    BY <1>4, <1>6, <2>1
  <2> QED
    BY <1>4, <1>6, <2>1, <2>2, <2>3 DEF SpansAreHeld
<1>9. EndedIsRemembered'
  <2>1. \A t \in Sessions : RE!Live(t)' => RE!Live(t) /\ t # s
    BY <1>5 DEF RE!Live
  <2>2. \A x \in RE!Items : Owner[x] # s => x \notin RE!Of(s)
    BY DEF RE!Of
  <2>3. \A t \in Sessions : t # s => kept'.diffs[t] = kept.diffs[t]
    BY <1>1, <1>4 DEF RecorderTypes, Kept
  <2> QED
    BY <1>1, <1>4, <1>5, <2>1, <2>2, <2>3, OwnerIsSession DEF EndedIsRemembered
<1>10. RE!CountedOnce'
  BY <1>1, <1>2, <1>5 DEF RE!CountedOnce
<1>11. RE!NothingOfADeletedSession'
  <2> SUFFICES ASSUME NEW t \in (host'.deleted \ (IF host'.disposed THEN Sessions ELSE {}))
               PROVE /\ kept'.sessions[t] = "unknown" /\ t \notin kept'.busy \cup kept'.pendingChats
                     /\ (kept'.chats \cup kept'.tools \cup kept'.finalizedMessages \cup kept'.finishedTools
                         \cup kept'.permissions) \cap RE!Of(t) = {}
    BY DEF RE!NothingOfADeletedSession, RE!Of, RE!Items
  <2>1. CASE t = s
    BY <1>1, <1>4, <2>1 DEF RecorderTypes, Kept
  <2>2. CASE t # s
    <3>1. /\ kept.sessions[t] = "unknown" /\ t \notin kept.busy \cup kept.pendingChats
          /\ (kept.chats \cup kept.tools \cup kept.finalizedMessages \cup kept.finishedTools
              \cup kept.permissions) \cap RE!Of(t) = {}
          /\ t \in Sessions
      BY <1>1, <1>5, <2>2 DEF RecorderOK, RE!NothingOfADeletedSession, RecorderTypes, HostSays
    <3> QED
      BY <1>1, <1>4, <2>2, <3>1 DEF RecorderTypes, Kept
  <2> QED
    BY <2>1, <2>2
<1> QED
  BY <1>7, <1>8, <1>9, <1>10, <1>11 DEF RecorderOK

LEMMA ShutdownStep == ASSUME RecorderOK, RE!Shutdown PROVE RecorderOK'
<1>1. RecorderTypes /\ SpansAreHeld /\ EndedIsRemembered /\ RE!CountedOnce
  BY DEF RecorderOK
<1>2. /\ kept' = [kept EXCEPT !.sessions = [s \in Sessions |-> "unknown"], !.busy = {},
                              !.chats = {}, !.pendingChats = {}, !.tools = {}]
      /\ spans' = spans - RE!SpansHeld /\ host' = [host EXCEPT !.disposed = TRUE]
      /\ UNCHANGED <<counted, lines>>
  BY DEF RE!Shutdown
<1>3. /\ kept' \in Kept /\ kept'.sessions = [s \in Sessions |-> "unknown"] /\ kept'.busy = {}
      /\ kept'.chats = {} /\ kept'.pendingChats = {} /\ kept'.tools = {}
      /\ kept'.finalizedMessages = kept.finalizedMessages /\ kept'.finishedTools = kept.finishedTools
      /\ kept'.autoDecided = kept.autoDecided
  BY <1>1, <1>2 DEF RecorderTypes, Kept
<1>4. /\ host' \in HostSays /\ host'.disposed = TRUE /\ host'.deleted = host.deleted
      /\ host'.created = host.created /\ host'.started = host.started /\ host'.ended = host.ended
      /\ host'.repeated = host.repeated /\ host'.grown = host.grown
  BY <1>1, <1>2 DEF RecorderTypes, HostSays
<1>5. spans' = 0
  <2>1. RE!SpansHeld = Cardinality(Roots) + Cardinality(kept.pendingChats)
                       + Cardinality(kept.chats) + Cardinality(OpenTools)
    BY Cardinalities DEF RE!SpansHeld, Roots, OpenTools
  <2>2. spans = RE!SpansHeld /\ spans \in Int
    BY <1>1, <2>1 DEF SpansAreHeld, RecorderTypes
  <2> QED
    BY <1>2, <2>2
<1>6. RecorderTypes'
  BY <1>1, <1>2, <1>3, <1>4, <1>5 DEF RecorderTypes
<1>7. SpansAreHeld'
  <2>1. Roots' = {} /\ OpenTools' = {}
    BY <1>3 DEF Roots, OpenTools
  <2> QED
    BY <1>3, <1>5, <2>1, FS_EmptySet DEF SpansAreHeld
<1>8. EndedIsRemembered'
  BY <1>1, <1>3, <1>4, OwnerIsSession DEF EndedIsRemembered, RE!Live
<1>9. RE!CountedOnce'
  BY <1>1, <1>2, <1>4 DEF RE!CountedOnce
<1>10. RE!NothingOfADeletedSession'
  BY <1>4 DEF RE!NothingOfADeletedSession, HostSays
<1> QED
  BY <1>6, <1>7, <1>8, <1>9, <1>10 DEF RecorderOK

LEMMA RecorderStep == RecorderOK /\ [RE!Next]_recorderVars => RecorderOK'
<1> SUFFICES ASSUME RecorderOK, [RE!Next]_recorderVars PROVE RecorderOK'
  OBVIOUS
<1>1. CASE UNCHANGED recorderVars
  BY <1>1 DEF recorderVars, RecorderOK, RecorderTypes, SpansAreHeld, EndedIsRemembered, RE!CountedOnce,
     RE!NothingOfADeletedSession, RE!Live, Roots, OpenTools
<1>2. ASSUME NEW s \in Sessions,
             \/ RE!SessionCreated(s) \/ RE!SessionIdle(s) \/ RE!SessionDeleted(s) \/ RE!ChatParams(s)
             \/ \E n \in 0..MaxLines : RE!SessionDiff(s, n)
      PROVE RecorderOK'
  BY <1>2, CreatedStep, IdleStep, DeletedStep, ParamsStep, DiffStep
<1>3. ASSUME NEW s \in Sessions,
             \/ RE!Compacted(s) \/ RE!SessionError(s) \/ RE!CommandExecuted(s) \/ RE!TodoUpdated(s)
             \/ RE!ChatMessage(s) \/ RE!CompactionAutocontinue(s)
             \/ \E status \in {"busy", "retry", "idle"} : RE!SessionStatus(s, status)
      PROVE RecorderOK'
  BY <1>3, MentionStep DEF RE!Compacted, RE!SessionError, RE!CommandExecuted, RE!TodoUpdated,
     RE!ChatMessage, RE!CompactionAutocontinue
<1>4. ASSUME NEW m \in Messages, RE!MessageUpdated(m) \/ RE!MessageCompleted(m) \/ RE!TextComplete(m)
      PROVE RecorderOK'
  <2>1. Owner[m] \in Sessions
    BY OwnerIsSession
  <2>2. CASE RE!TextComplete(m)
    BY <2>1, <2>2, MentionStep
  <2> QED
    BY <1>4, <2>2, MessageStep
<1>5. ASSUME NEW c \in ToolCalls, RE!ToolBefore(c) \/ RE!ToolAfter(c) \/ RE!PartUpdated(c)
      PROVE RecorderOK'
  BY <1>5, ToolBeforeStep, FinishToolStep DEF RE!ToolAfter, RE!PartUpdated
<1>6. ASSUME NEW p \in Permissions,
             RE!PermissionUpdated(p) \/ RE!PermissionAsk(p) \/ RE!PermissionReplied(p)
      PROVE RecorderOK'
  BY <1>6, PermissionStep
<1> QED
  BY <1>1, <1>2, <1>3, <1>4, <1>5, <1>6, ShutdownStep DEF RE!Next

LEMMA RecorderPromises ==
  RecorderOK => RE!CountedOnce /\ RE!NoSpanIsLost /\ RE!NothingOfADeletedSession
  BY Cardinalities DEF RecorderOK, SpansAreHeld, RE!NoSpanIsLost, RE!SpansHeld, Roots, OpenTools

-----------------------------------------------------------------------------
(* The plugins together.                                                   *)

\* A step of the composition is a step or a stutter of every component.
LEMMA StepOfEach ==
  ASSUME [Next]_vars
  PROVE /\ [RE!Next]_recorderVars /\ [MI!Next]_modelsVars /\ [RA!Next]_repoVars
        /\ [SC!Next]_engineVars /\ [TG!Next]_tabVars /\ [FB!Next]_feedbackVars
<1>1. CASE UNCHANGED vars
  BY <1>1 DEF vars, pluginVars
<1>2. CASE PluginNext /\ UNCHANGED <<tabVars, feedbackVars>>
  BY <1>2 DEF PluginNext, pluginVars
<1>3. CASE TG!Next /\ UNCHANGED <<pluginVars, feedbackVars>>
  BY <1>3 DEF pluginVars
<1>4. CASE FB!Next /\ UNCHANGED <<pluginVars, tabVars>>
  BY <1>4 DEF pluginVars
<1>5. CASE UNCHANGED <<pluginVars, tabVars, feedbackVars>>
  BY <1>5 DEF pluginVars
<1> QED
  BY <1>1, <1>2, <1>3, <1>4, <1>5 DEF Next

THEOREM RepoAuthInvariance == Spec => []RepoOK
<1>1. Init => RepoOK
  BY RepoInit DEF Init
<1>2. RepoOK /\ [Next]_vars => RepoOK'
  BY RepoStep, StepOfEach
<1> QED
  BY <1>1, <1>2, PTL DEF Spec

(* The callers of a plugin that miss the cache share one exchange          *)
(* (plugin.ts:155-158).                                                    *)
THEOREM ExchangesAreShared == Spec => []OneExchangePerMiss
  BY RepoAuthInvariance, PTL DEF RepoOK, OneExchangePerMiss

(* What is cached after a reset was exchanged from a later login           *)
(* (token-runtime.ts:395-397).                                             *)
THEOREM ResetForgets == Spec => []NothingSurvivesReset
  BY RepoAuthInvariance, PTL DEF RepoOK, NothingSurvivesReset

THEOREM ModelsInvariance == Spec => []ModelsOK
<1>1. Init => ModelsOK
  BY ModelsInit DEF Init
<1>2. ModelsOK /\ [Next]_vars => ModelsOK'
  BY ModelsStep, StepOfEach
<1> QED
  BY <1>1, <1>2, PTL DEF Spec

(* A record of the models is dated no later than the server replaced it    *)
(* (cache.ts:116).                                                         *)
THEOREM RecordsAreDatedHonestly == Spec => []FetchedAtIsHonest
<1>1. ModelsOK => FetchedAtIsHonest
  BY ModelsPromises DEF FetchedAtIsHonest
<1> QED
  BY <1>1, ModelsInvariance, PTL

(* No provider is polled twice, and no rebuilt configuration leaves a      *)
(* timer (opencode.ts:98-101).                                             *)
THEOREM NobodyPollsTwice == Spec => []OneScheduler
<1>1. ModelsOK /\ SchedulersOK => OneScheduler
  BY ModelsPromises DEF SchedulersOK, OneScheduler
<1>2. Init => SchedulersOK
  BY SchedulersInit DEF Init
<1>3. SchedulersOK /\ [Next]_vars => SchedulersOK'
  BY SchedulersStep, StepOfEach
<1> QED
  BY <1>1, <1>2, <1>3, ModelsInvariance, PTL DEF Spec

THEOREM RecorderInvariance == Spec => []RecorderOK
<1>1. Init => RecorderOK
  BY RecorderInit DEF Init
<1>2. RecorderOK /\ [Next]_vars => RecorderOK'
  BY RecorderStep, StepOfEach
<1> QED
  BY <1>1, <1>2, PTL DEF Spec

(* Messages, calls and decisions are counted once, by whichever path they  *)
(* are reported, and the lines as often as the diff grew                   *)
(* (recorder.ts:116-124).                                                  *)
THEOREM EachIsCountedOnce == Spec => []CountedOnce
<1>1. RecorderOK => CountedOnce
  BY RecorderPromises DEF CountedOnce
<1> QED
  BY <1>1, RecorderInvariance, PTL

(* The open spans are those that an entry of the recorder will end.        *)
THEOREM SpansHaveAnEntry == Spec => []NoSpanIsLost
<1>1. RecorderOK => NoSpanIsLost
  BY RecorderPromises DEF NoSpanIsLost
<1> QED
  BY <1>1, RecorderInvariance, PTL

(* Nothing is kept of a session that was deleted (recorder.ts:724).        *)
THEOREM DeletedIsForgotten == Spec => []NothingOfADeletedSession
<1>1. RecorderOK => NothingOfADeletedSession
  BY RecorderPromises DEF NothingOfADeletedSession
<1> QED
  BY <1>1, RecorderInvariance, PTL
=============================================================================
