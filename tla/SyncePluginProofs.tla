-------------------------- MODULE SyncePluginProofs --------------------------
(***************************************************************************)
(* The plugin for synchronisation accounts, for any accounts, any           *)
(* configurations and whatever other programs do: it is well typed, it      *)
(* answers each operation once, it lists what there is, and it stores what  *)
(* the client wants.                                                        *)
(***************************************************************************)
EXTENDS SyncePlugin, TLAPS

InCalls == {"server proxy", "get configs", "get config", "complete sync in"}
CommandCalls == {"start session", "session proxy", "get template", "set config", "detach"}
OutCalls == CommandCalls \cup {"complete sync out"}
Jobs == {"remove", "add", "update"}
Plans == [Jobs -> SUBSET Accounts]

(* Settings of clients, and configurations of SyncEvolution. *)
IsSettings(s) == DOMAIN s \subseteq Accounts \X ClientProps /\ Range(s) \subseteq Values
IsConfig(c) == DOMAIN c \subseteq PluginProps /\ Range(c) \subseteq Values
IsView(v) == DOMAIN v \subseteq ClientProps /\ Range(v) \subseteq Values

-----------------------------------------------------------------------------
(* What the conversions make. *)

LEMMA RangeIn ==
    ASSUME NEW f, NEW S, \A x \in DOMAIN f : f[x] \in S
    PROVE  Range(f) \subseteq S
BY DEF Range

LEMMA InRange ==
    ASSUME NEW f, NEW S, Range(f) \subseteq S, NEW x \in DOMAIN f
    PROVE  f[x] \in S
BY DEF Range

LEMMA ViewType == ASSUME NEW c, IsConfig(c) PROVE IsView(View(c))
<1> DEFINE shows(p) == {q \in DOMAIN c : ShownAs(c, q) = p}
<1>1. View(c) = [p \in {q \in ClientProps : shows(q) # {}} |->
                    IF <<LastUrl>> \in shows(p) THEN c[<<LastUrl>>] ELSE c[CHOOSE q \in shows(p) : TRUE]]
  BY DEF View
<1>2. ASSUME NEW p \in DOMAIN View(c) PROVE View(c)[p] \in Values
  <2>1. p \in ClientProps /\ shows(p) # {}
    BY <1>1, <1>2
  <2>2. (CHOOSE q \in shows(p) : TRUE) \in shows(p)
    BY <2>1
  <2>3. shows(p) \subseteq DOMAIN c
    OBVIOUS
  <2> HIDE DEF shows
  <2>4. View(c)[p] = IF <<LastUrl>> \in shows(p) THEN c[<<LastUrl>>] ELSE c[CHOOSE q \in shows(p) : TRUE]
    BY <1>1, <1>2
  <2>5. PICK q \in DOMAIN c : View(c)[p] = c[q]
    BY <2>2, <2>3, <2>4
  <2> QED BY <2>5, InRange DEF IsConfig
<1>3. DOMAIN View(c) \subseteq ClientProps
  BY <1>1
<1> QED BY <1>2, <1>3, RangeIn DEF IsView

LEMMA OfType ==
    ASSUME NEW s, IsSettings(s), NEW a
    PROVE  /\ IsView(Of(s, a))
           /\ DOMAIN Of(s, a) = {q \in ClientProps : <<a, q>> \in DOMAIN s}
           /\ \A p \in DOMAIN Of(s, a) : Of(s, a)[p] = s[<<a, p>>]
<1>1. /\ DOMAIN Of(s, a) = {q \in ClientProps : <<a, q>> \in DOMAIN s}
      /\ \A p \in DOMAIN Of(s, a) : Of(s, a)[p] = s[<<a, p>>]
  BY DEF Of
<1>2. \A p \in DOMAIN Of(s, a) : Of(s, a)[p] \in Values
  BY <1>1, InRange DEF IsSettings
<1>3. Range(Of(s, a)) \subseteq Values
  BY <1>2, RangeIn
<1> QED BY <1>1, <1>3 DEF IsView

LEMMA PluginPropType == \A p \in ClientProps : PluginProp(p) \in PluginProps
<1> SUFFICES ASSUME NEW p \in ClientProps PROVE PluginProp(p) \in PluginProps
  OBVIOUS
<1>1. CASE p = <<"username">>
  BY <1>1 DEF PluginProp, PluginProps
<1>2. CASE p = <<"url">>
  BY <1>2 DEF PluginProp, PluginProps
<1>3. CASE p \in {"contacts", "eas-contacts"} \X {"uri", "sync"}
  <2>1. PICK s \in {"contacts", "eas-contacts"}, i \in {"uri", "sync"} : p = <<s, i>>
    BY <1>3
  <2>2. PluginProp(p) = <<PluginSource[s], i>>
    BY <2>1 DEF PluginProp
  <2>3. PluginSource[s] = "addressbook"
    BY DEF PluginSource
  <2> QED BY <2>2, <2>3 DEF PluginProps
<1> QED BY <1>1, <1>2, <1>3 DEF ClientProps

LEMMA BackendType ==
    /\ DOMAIN Backend = {"contacts", "eas-contacts"}
    /\ Backend["contacts"] = "addressbook" /\ Backend["eas-contacts"] = "ActiveSync Address Book"
    /\ \A s \in DOMAIN Backend : PluginSource[s] = "addressbook" /\ Backend[s] \in Values
<1>1. /\ DOMAIN Backend = {"contacts", "eas-contacts"}
      /\ Backend["contacts"] = "addressbook" /\ Backend["eas-contacts"] = "ActiveSync Address Book"
  BY DEF Backend, :>, @@
<1>2. \A s \in DOMAIN Backend : Backend[s] \in Values
  BY ConfigsAssumption DEF Backends, Range
<1> QED BY <1>1, <1>2 DEF PluginSource

LEMMA OverrideType ==
    ASSUME NEW f, NEW g, NEW D, NEW S,
           DOMAIN f \subseteq D, Range(f) \subseteq S, DOMAIN g \subseteq D, Range(g) \subseteq S
    PROVE  DOMAIN (f @@ g) \subseteq D /\ Range(f @@ g) \subseteq S
<1>1. DOMAIN (f @@ g) = DOMAIN f \cup DOMAIN g
  BY DEF @@
<1>2. ASSUME NEW x \in DOMAIN (f @@ g) PROVE (f @@ g)[x] \in S
  <2>1. (f @@ g)[x] = IF x \in DOMAIN f THEN f[x] ELSE g[x]
    BY <1>1, <1>2 DEF @@
  <2> QED BY <1>1, <1>2, <2>1, InRange
<1>3. Range(f @@ g) \subseteq S
  BY <1>2, RangeIn
<1> QED BY <1>1, <1>3

LEMMA RestrictType ==
    ASSUME NEW f, NEW S, NEW X, X \subseteq DOMAIN f, Range(f) \subseteq S
    PROVE  DOMAIN Restrict(f, X) = X /\ Range(Restrict(f, X)) \subseteq S /\ \A x \in X : Restrict(f, X)[x] = f[x]
<1>1. DOMAIN Restrict(f, X) = X /\ \A x \in X : Restrict(f, X)[x] = f[x]
  BY DEF Restrict
<1>2. \A x \in DOMAIN Restrict(f, X) : Restrict(f, X)[x] \in S
  BY <1>1, InRange
<1>3. Range(Restrict(f, X)) \subseteq S
  BY <1>2, RangeIn
<1> QED BY <1>1, <1>3

LEMMA MakeContextType == ASSUME NEW s, IsView(s) PROVE IsConfig(MakeContext(s))
<1> DEFINE sources == {p \in DOMAIN s : p[1] \in DOMAIN Backend}
           keys == {PluginProp(p) : p \in DOMAIN s}
           kept == [q \in keys |-> s[CHOOSE p \in DOMAIN s : PluginProp(p) = q]]
           settled == {<<PluginSource[p[1]], "backend">> : p \in sources}
           backends == [q \in settled |-> Backend[(CHOOSE p \in sources : PluginSource[p[1]] = q[1])[1]]]
<1>1. MakeContext(s) = kept @@ backends
  BY DEF MakeContext
<1>2. DOMAIN kept \subseteq PluginProps
  BY PluginPropType DEF IsView
<1>3. \A q \in DOMAIN kept : kept[q] \in Values
  <2> TAKE q \in DOMAIN kept
  <2>1. \E p \in DOMAIN s : PluginProp(p) = q
    OBVIOUS
  <2>2. (CHOOSE p \in DOMAIN s : PluginProp(p) = q) \in DOMAIN s
    BY <2>1
  <2> QED BY <2>2, InRange DEF IsView
<1>4. DOMAIN backends \subseteq PluginProps
  <2>1. \A p \in sources : PluginSource[p[1]] = "addressbook"
    BY BackendType
  <2> QED BY <2>1 DEF PluginProps
<1>5. \A q \in DOMAIN backends : backends[q] \in Values
  <2> TAKE q \in DOMAIN backends
  <2>1. \E p \in sources : PluginSource[p[1]] = q[1]
    OBVIOUS
  <2>2. (CHOOSE p \in sources : PluginSource[p[1]] = q[1]) \in sources
    BY <2>1
  <2> QED BY <2>2, BackendType
<1> HIDE DEF kept, backends
<1>6. Range(kept) \subseteq Values /\ Range(backends) \subseteq Values
  BY <1>3, <1>5, RangeIn
<1>7. DOMAIN (kept @@ backends) \subseteq PluginProps /\ Range(kept @@ backends) \subseteq Values
  BY <1>2, <1>4, <1>6, OverrideType
<1> QED BY <1>1, <1>7 DEF IsConfig

LEMMA NewContextType == ASSUME NEW s, IsView(s), NEW a PROVE IsConfig(NewContext(a, s))
<1> DEFINE own == MakeContext(s)
           inherited == {q \in DOMAIN Template \ {<<"username">>} :
                            \/ q \in {<<"syncURL">>, <<"WebURL">>}
                            \/ a \notin LocalSync /\ \E p \in DOMAIN own : p[1] = q[1]}
<1>1. NewContext(a, s) = own @@ Restrict(Template, inherited)
  BY DEF NewContext
<1>2. IsConfig(own)
  BY MakeContextType
<1>3. inherited \subseteq DOMAIN Template
  OBVIOUS
<1>4. DOMAIN Template \subseteq PluginProps /\ Range(Template) \subseteq Values
  BY ConfigsAssumption
<1> HIDE DEF own, inherited
<1>5. DOMAIN Restrict(Template, inherited) \subseteq PluginProps /\ Range(Restrict(Template, inherited)) \subseteq Values
  BY <1>3, <1>4, RestrictType
<1> QED BY <1>1, <1>2, <1>5, OverrideType DEF IsConfig

LEMMA EditedType == ASSUME NEW s, IsSettings(s), NEW new \in Edited(s) PROVE IsSettings(new)
<1>1. PICK gone \in SUBSET AccountsIn(s), ks \in SUBSET DOMAIN Edits :
         new = Restrict(Edits, ks) @@ Restrict(s, {k \in DOMAIN s : k[1] \notin gone})
  <2> DEFINE few == {x \in SUBSET DOMAIN Edits : Cardinality(x) <= MaxEdits}
  <2>1. PICK gone \in SUBSET AccountsIn(s), edits \in {Restrict(Edits, ks) : ks \in few} :
           new = edits @@ Restrict(s, {k \in DOMAIN s : k[1] \notin gone})
    BY DEF Edited
  <2>2. few \subseteq SUBSET DOMAIN Edits
    OBVIOUS
  <2> HIDE DEF few
  <2>3. PICK ks \in few : edits = Restrict(Edits, ks)
    OBVIOUS
  <2> QED BY <2>1, <2>2, <2>3
<1> DEFINE e == Restrict(Edits, ks)
           r == Restrict(s, {k \in DOMAIN s : k[1] \notin gone})
<1>2. DOMAIN e \subseteq Accounts \X ClientProps /\ Range(e) \subseteq Values
  <2>1. DOMAIN Edits \subseteq Accounts \X ClientProps /\ Range(Edits) \subseteq Values
    BY LimitsAssumption
  <2>2. DOMAIN e = ks /\ Range(e) \subseteq Values
    BY <2>1, RestrictType
  <2> QED BY <2>1, <2>2
<1>3. DOMAIN r \subseteq Accounts \X ClientProps /\ Range(r) \subseteq Values
  <2>1. {k \in DOMAIN s : k[1] \notin gone} \subseteq DOMAIN s
    OBVIOUS
  <2>2. DOMAIN s \subseteq Accounts \X ClientProps /\ Range(s) \subseteq Values
    BY DEF IsSettings
  <2>3. DOMAIN r = {k \in DOMAIN s : k[1] \notin gone} /\ Range(r) \subseteq Values
    BY <2>1, <2>2, RestrictType
  <2> QED BY <2>1, <2>2, <2>3
<1> HIDE DEF e, r
<1>4. new = e @@ r
  BY <1>1 DEF e, r
<1> QED BY <1>2, <1>3, <1>4, OverrideType DEF IsSettings

-----------------------------------------------------------------------------
(* Types, and where the calls stand: which of them belong to which          *)
(* operation, and that nothing is cancelled unasked.                        *)

DataOK ==
    /\ DOMAIN configs \subseteq Accounts /\ \A a \in DOMAIN configs : IsConfig(configs[a])
    /\ IsSettings(settings) /\ IsSettings(wanted)

ControlOK ==
    /\ accounts \subseteq Accounts /\ newAccounts \subseteq Accounts \ accounts
    /\ plan \in Plans
    /\ call \in Calls /\ cancellable \in {"none", "set", "cancelled"} /\ completion \in BOOLEAN
    /\ current # NobodyAt <=> call \in CommandCalls
    /\ cbErr \in {"none", "io", "cancelled"}
    /\ owed \in {0, 1} /\ (owed = 1 <=> call # "none")
    /\ unseen \subseteq Accounts /\ failed \in BOOLEAN

CallInv ==
    /\ current = NobodyAt \/ (current.job \in Jobs /\ current.account \in Accounts)
    /\ call \in InCalls => phase = "syncing in"
    /\ call \in OutCalls => phase = "syncing out"
    /\ call = "none" => phase \in {"open", "closed"}
    /\ cancellable = "cancelled" \/ cbErr = "cancelled" => cancelled

TypeInv == DataOK /\ ControlOK /\ CallInv

LEMMA TypesOK == TypeOK <=> DataOK /\ ControlOK
<1>1. (\A s \in {settings, wanted} : DOMAIN s \subseteq Accounts \X ClientProps /\ Range(s) \subseteq Values)
         <=> IsSettings(settings) /\ IsSettings(wanted)
  BY DEF IsSettings
<1>2. (\A a \in DOMAIN configs : DOMAIN configs[a] \subseteq PluginProps /\ Range(configs[a]) \subseteq Values)
         <=> (\A a \in DOMAIN configs : IsConfig(configs[a]))
  BY DEF IsConfig
<1> QED BY <1>1, <1>2 DEF TypeOK, DataOK, ControlOK, Plans, Jobs, CommandCalls

LEMMA NothingType == Nothing \in Plans
BY DEF Nothing, Plans, Jobs

LEMMA EmptyType == IsSettings(Empty) /\ IsView(Empty) /\ DOMAIN Empty = {}
<1>1. DOMAIN Empty = {}
  BY DEF Empty
<1>2. Range(Empty) = {}
  BY <1>1 DEF Range
<1> QED BY <1>1, <1>2 DEF IsSettings, IsView

LEMMA ThereType ==
    ASSUME NEW a, NEW v, NEW f
    PROVE  DOMAIN ((a :> v) @@ f) = {a} \cup DOMAIN f /\ \A b \in {a} \cup DOMAIN f : ((a :> v) @@ f)[b] = IF b = a THEN v ELSE f[b]
BY DEF :>, @@

(* The commands are about an account, and make configurations of it.        *)
LEMMA AppliedType ==
    ASSUME DataOK, ControlOK, CallInv, CanApply
    PROVE  /\ DOMAIN Applied \subseteq Accounts /\ \A a \in DOMAIN Applied : IsConfig(Applied[a])
           /\ current.job \in Jobs /\ current.account \in Accounts
           /\ current.job = "remove" =>
                 /\ DOMAIN Applied = DOMAIN configs \ {current.account}
                 /\ \A a \in DOMAIN Applied : Applied[a] = configs[a]
           /\ current.job # "remove" =>
                 /\ DOMAIN Applied = {current.account} \cup DOMAIN configs
                 /\ \A a \in DOMAIN configs \ {current.account} : Applied[a] = configs[a]
                 /\ Applied[current.account] = IF current.job = "add" THEN NewContext(current.account, Of(wanted, current.account))
                                               ELSE MakeContext(Of(wanted, current.account)) @@ configs[current.account]
<1> DEFINE a == current.account
<1>1. current.job \in Jobs /\ a \in Accounts
  BY DEF CanApply, ControlOK, CallInv, CommandCalls
<1>2. IsView(Of(wanted, a))
  BY OfType DEF DataOK
<1>3. CASE current.job = "remove"
  <2>1. Applied = Restrict(configs, DOMAIN configs \ {a})
    BY <1>3 DEF Applied
  <2>2. DOMAIN Applied = DOMAIN configs \ {a} /\ \A b \in DOMAIN Applied : Applied[b] = configs[b]
    BY <2>1 DEF Restrict
  <2> QED BY <1>1, <1>3, <2>2 DEF DataOK
<1>4. CASE current.job = "add"
  <2>1. Applied = (a :> NewContext(a, Of(wanted, a))) @@ configs
    BY <1>4 DEF Applied
  <2>2. IsConfig(NewContext(a, Of(wanted, a)))
    BY <1>2, NewContextType
  <2> DEFINE v == NewContext(a, Of(wanted, a))
  <2>3. DOMAIN Applied = {a} \cup DOMAIN configs /\ \A b \in {a} \cup DOMAIN configs : Applied[b] = IF b = a THEN v ELSE configs[b]
    <3>1. Applied = (a :> v) @@ configs
      BY <2>1
    <3> HIDE DEF a, v
    <3> QED BY <3>1 DEF :>, @@
  <2> QED BY <1>1, <1>4, <2>2, <2>3 DEF DataOK
<1>5. CASE current.job = "update"
  <2>1. Applied = (a :> (MakeContext(Of(wanted, a)) @@ configs[a])) @@ configs
    BY <1>5 DEF Applied
  <2>2. a \in DOMAIN configs
    BY <1>5 DEF CanApply
  <2>3. IsConfig(MakeContext(Of(wanted, a)) @@ configs[a])
    BY <1>2, <2>2, MakeContextType, OverrideType DEF DataOK, IsConfig
  <2> DEFINE v == MakeContext(Of(wanted, a)) @@ configs[a]
  <2>4. DOMAIN Applied = {a} \cup DOMAIN configs /\ \A b \in {a} \cup DOMAIN configs : Applied[b] = IF b = a THEN v ELSE configs[b]
    <3>1. Applied = (a :> v) @@ configs
      BY <2>1
    <3> HIDE DEF a, v
    <3> QED BY <3>1 DEF :>, @@
  <2> QED BY <1>1, <1>5, <2>3, <2>4 DEF DataOK
<1> QED BY <1>1, <1>3, <1>4, <1>5 DEF Jobs

LEMMA UnheardType ==
    ASSUME DataOK, ControlOK, CallInv, Unheard
    PROVE  /\ DOMAIN configs' \subseteq Accounts /\ \A a \in DOMAIN configs' : IsConfig(configs'[a])
           /\ unseen' \subseteq Accounts
<1>1. CASE UNCHANGED <<configs, unseen>>
  BY <1>1 DEF DataOK, ControlOK
<1>2. CASE CanApply /\ configs' = Applied /\ unseen' = unseen \cup {current.account}
  BY <1>2, AppliedType DEF ControlOK
<1> QED BY <1>1, <1>2 DEF Unheard

(* The next account of a plan, or the end of it.                            *)
LEMMA StepSyncOutType ==
    ASSUME NEW p \in Plans, StepSyncOut(p)
    PROVE  /\ plan' \in Plans /\ cancellable' = "set"
           /\ \/ call' = "complete sync out" /\ current' = NobodyAt /\ plan' = Nothing /\ p = Nothing
              \/ /\ call' = "start session"
                 /\ \E job \in Jobs : \E a \in p[job] :
                       /\ a \in Accounts /\ current' = [job |-> job, account |-> a]
                       /\ plan' = [p EXCEPT ![job] = @ \ {a}]
<1>1. CASE p = Nothing
  BY <1>1 DEF StepSyncOut, Await
<1>2. CASE p # Nothing
  <2>1. PICK job \in Jobs : \E a \in p[job] :
           /\ plan' = [p EXCEPT ![job] = @ \ {a}]
           /\ current' = [job |-> job, account |-> a]
           /\ Await("start session")
    BY <1>2, Zenon DEF StepSyncOut, Jobs
  <2>2. PICK a \in p[job] :
           /\ plan' = [p EXCEPT ![job] = @ \ {a}]
           /\ current' = [job |-> job, account |-> a]
           /\ Await("start session")
    BY <2>1
  <2>3. a \in Accounts /\ plan' \in Plans
    BY <2>2 DEF Plans
  <2> QED BY <2>2, <2>3 DEF Await
<1> QED BY <1>1, <1>2

LEMMA StepSyncOutPlace ==
    ASSUME NEW p \in Plans, StepSyncOut(p)
    PROVE  /\ plan' \in Plans /\ call' \in Calls /\ call' # "none" /\ cancellable' = "set"
           /\ call' \in OutCalls /\ call' \notin InCalls
           /\ current' # NobodyAt <=> call' \in CommandCalls
           /\ current' = NobodyAt \/ (current'.job \in Jobs /\ current'.account \in Accounts)
<1>1. CASE call' = "complete sync out" /\ current' = NobodyAt /\ plan' \in Plans /\ cancellable' = "set"
  BY <1>1 DEF Calls, OutCalls, InCalls, CommandCalls
<1>2. ASSUME call' = "start session", NEW job \in Jobs, NEW a \in Accounts, current' = [job |-> job, account |-> a],
             plan' \in Plans, cancellable' = "set"
      PROVE  /\ plan' \in Plans /\ call' \in Calls /\ call' # "none" /\ cancellable' = "set"
             /\ call' \in OutCalls /\ call' \notin InCalls
             /\ current' # NobodyAt <=> call' \in CommandCalls
             /\ current' = NobodyAt \/ (current'.job \in Jobs /\ current'.account \in Accounts)
  <2>1. current'.job = job /\ current'.account = a /\ NobodyAt.job = "none"
    BY <1>2 DEF NobodyAt
  <2>2. current' # NobodyAt
    BY <2>1 DEF Jobs
  <2> QED BY <1>2, <2>1, <2>2 DEF Calls, OutCalls, InCalls, CommandCalls
<1> QED BY <1>1, <1>2, StepSyncOutType

-----------------------------------------------------------------------------
(* Each step keeps the types.                                               *)

LEMMA GetConfigPlace ==
    ASSUME NEW todo \in SUBSET Accounts, TypeInv, GetConfig(todo)
    PROVE  /\ newAccounts' = todo /\ call' \in {"get config", "complete sync in"}
           /\ cbErr' \in {"none", cbErr} /\ completion' \in BOOLEAN /\ cancellable' \in {"set", cancellable}
           /\ call' = "get config" => cancellable' = "set" /\ cbErr' = cbErr /\ todo # {}
           /\ call' = "complete sync in" => cbErr' = "none" /\ todo = {}
BY DEF GetConfig, Await, CompleteSyncInLater, TypeInv, ControlOK

LEMMA TypeInit == Init => TypeInv
<1> SUFFICES ASSUME Init PROVE TypeInv
  OBVIOUS
<1>1. PICK present \in SUBSET Accounts : configs = Restrict(Configs, present)
  BY DEF Init
<1>2. DOMAIN configs = present /\ \A a \in present : configs[a] = Configs[a]
  BY <1>1 DEF Restrict
<1>3. \A a \in present : IsConfig(Configs[a])
  BY ConfigsAssumption DEF Range, IsConfig
<1>4. DataOK
  BY <1>2, <1>3, EmptyType DEF Init, DataOK
<1>5. ControlOK
  <2>1. completion \in BOOLEAN /\ failed \in BOOLEAN
    BY Zenon DEF Init
  <2> QED BY <2>1, NothingType DEF Init, ControlOK, Calls, CommandCalls
<1>6. CallInv
  BY DEF Init, CallInv, InCalls, OutCalls, CommandCalls
<1> QED BY <1>4, <1>5, <1>6 DEF TypeInv

LEMMA TypeCalled == ASSUME TypeInv, SyncIn \/ SyncOut \/ Abort \/ Cancel PROVE TypeInv'
<1> USE DEF TypeInv
<1>1. CASE SyncIn
  <2>1. DataOK'
    BY <1>1 DEF SyncIn, DataOK, cacheVars, outVars
  <2>2. ControlOK' /\ CallInv'
    BY <1>1 DEF SyncIn, Await, ControlOK, CallInv, Calls, CommandCalls, InCalls, OutCalls, cacheVars, outVars
  <2> QED BY <2>1, <2>2
<1>2. CASE SyncOut
  <2>1. PICK new \in Edited(settings) : wanted' = new /\ StepSyncOut(Analyse(new))
    BY <1>2 DEF SyncOut
  <2>2. IsSettings(new)
    BY EditedType DEF DataOK
  <2>3. Analyse(new) \in Plans
    <3>1. AccountsIn(new) \subseteq Accounts /\ AccountsIn(settings) \subseteq Accounts
      BY <2>2 DEF AccountsIn, IsSettings, DataOK
    <3> QED BY <3>1 DEF Analyse, Plans, Jobs
  <2>4. DataOK'
    BY <1>2, <2>1, <2>2 DEF SyncOut, DataOK, cacheVars
  <2>5. ControlOK' /\ CallInv'
    BY <1>2, <2>1, <2>3, StepSyncOutPlace DEF SyncOut, ControlOK, CallInv, cacheVars
  <2> QED BY <2>4, <2>5
<1>3. CASE Abort
  <2>1. DataOK'
    BY <1>3 DEF Abort, DataOK, cacheVars, outVars
  <2>2. ControlOK' /\ CallInv'
    BY <1>3 DEF Abort, ControlOK, CallInv, InCalls, OutCalls, CommandCalls, Calls, cacheVars, outVars
  <2> QED BY <2>1, <2>2
<1>4. CASE Cancel
  <2>1. DataOK'
    BY <1>4 DEF Cancel, DataOK, cacheVars, outVars
  <2>2. ControlOK' /\ CallInv'
    BY <1>4 DEF Cancel, ControlOK, CallInv, cacheVars, outVars
  <2> QED BY <2>1, <2>2
<1> QED BY <1>1, <1>2, <1>3, <1>4

LEMMA TypeRead ==
    ASSUME TypeInv,
           ServerProxyCreated \/ GetConfigsDone \/ GetConfigDone \/ SyncInFailed \/ SyncInCancelled \/ CompleteSyncIn
    PROVE  TypeInv'
<1> USE DEF TypeInv
<1>1. CASE ServerProxyCreated
  <2>1. DataOK'
    BY <1>1 DEF ServerProxyCreated, DataOK, cacheVars, outVars
  <2>2. ControlOK' /\ CallInv'
    BY <1>1 DEF ServerProxyCreated, Replied, Await, ControlOK, CallInv, Calls, CommandCalls, InCalls, OutCalls,
                cacheVars, outVars, apiVars
  <2> QED BY <2>1, <2>2
<1>2. CASE GetConfigsDone
  <2>1. DataOK'
    BY <1>2 DEF GetConfigsDone, DataOK, cacheVars, outVars
  <2>2. ControlOK' /\ CallInv'
    <3> DEFINE todo == DOMAIN configs \ accounts
    <3>1. todo \in SUBSET Accounts /\ GetConfig(todo)
      BY <1>2 DEF GetConfigsDone, DataOK
    <3>2. /\ newAccounts' = todo /\ call' \in {"get config", "complete sync in"}
          /\ cbErr' \in {"none", cbErr} /\ completion' \in BOOLEAN /\ cancellable' \in {"set", cancellable}
      BY <3>1, GetConfigPlace
    <3> QED BY <1>2, <3>1, <3>2 DEF GetConfigsDone, Replied, ControlOK, CallInv, Calls, CommandCalls, InCalls, OutCalls,
                cacheVars, outVars, apiVars
  <2> QED BY <2>1, <2>2
<1>3. CASE GetConfigDone
  <2>1. PICK a \in newAccounts \cap DOMAIN configs :
           /\ accounts' = accounts \cup {a}
           /\ settings' = [k \in {<<a, p>> : p \in DOMAIN View(configs[a])} |-> View(configs[a])[k[2]]] @@ settings
           /\ GetConfig(newAccounts \ {a})
           /\ unseen' = unseen \ {a}
    BY <1>3 DEF GetConfigDone
  <2>2. DataOK'
    <3> DEFINE v == View(configs[a])
               read == [k \in {<<a, p>> : p \in DOMAIN v} |-> v[k[2]]]
    <3>1. IsView(v)
      BY ViewType DEF DataOK
    <3>2. DOMAIN read \subseteq Accounts \X ClientProps
      BY <3>1 DEF IsView, ControlOK
    <3>3. \A k \in DOMAIN read : read[k] \in Values
      <4> HIDE DEF v
      <4> QED BY <3>1, InRange DEF IsView
    <3>4. Range(read) \subseteq Values
      <4> HIDE DEF read
      <4> QED BY <3>3, RangeIn
    <3>5. IsSettings(settings')
      <4> HIDE DEF read
      <4>1. settings' = read @@ settings
        BY <2>1 DEF read
      <4> QED BY <4>1, <3>2, <3>4, OverrideType DEF IsSettings, DataOK
    <3>6. UNCHANGED <<configs, wanted>>
      BY <1>3 DEF GetConfigDone, outVars
    <3> QED BY <3>5, <3>6 DEF DataOK
  <2>3. ControlOK' /\ CallInv'
    <3> DEFINE todo == newAccounts \ {a}
    <3>1. todo \in SUBSET Accounts /\ GetConfig(todo)
      BY <2>1 DEF ControlOK
    <3>2. /\ newAccounts' = todo /\ call' \in {"get config", "complete sync in"}
          /\ cbErr' \in {"none", cbErr} /\ completion' \in BOOLEAN /\ cancellable' \in {"set", cancellable}
      BY <3>1, GetConfigPlace
    <3> QED BY <1>3, <2>1, <3>1, <3>2 DEF GetConfigDone, Replied, ControlOK, CallInv, Calls, CommandCalls, InCalls, OutCalls,
                outVars, apiVars
  <2> QED BY <2>2, <2>3
<1>4. CASE SyncInFailed
  <2>1. DataOK'
    BY <1>4 DEF SyncInFailed, DataOK, cacheVars, outVars
  <2>2. ControlOK' /\ CallInv'
    BY <1>4 DEF SyncInFailed, Replied, CompleteSyncInLater, ControlOK, CallInv, Calls, CommandCalls, InCalls, OutCalls,
                cacheVars, outVars, apiVars
  <2> QED BY <2>1, <2>2
<1>5. CASE SyncInCancelled
  <2>1. DataOK'
    BY <1>5 DEF SyncInCancelled, DataOK, cacheVars, outVars
  <2>2. ControlOK' /\ CallInv'
    BY <1>5 DEF SyncInCancelled, CompleteSyncInLater, ControlOK, CallInv, Calls, CommandCalls, InCalls, OutCalls,
                cacheVars, outVars, apiVars
  <2> QED BY <2>1, <2>2
<1>6. CASE CompleteSyncIn
  <2>1. DataOK'
    BY <1>6 DEF CompleteSyncIn, DataOK, cacheVars, outVars
  <2>2. ControlOK' /\ CallInv'
    <3>1. completion' \in BOOLEAN
      BY <1>6, Zenon DEF CompleteSyncIn
    <3>2. ControlOK'
      <4>1. accounts' \subseteq Accounts /\ newAccounts' \subseteq Accounts \ accounts' /\ unseen' \subseteq Accounts
        BY <1>6 DEF CompleteSyncIn, ControlOK, cacheVars
      <4>2. plan' \in Plans /\ failed' \in BOOLEAN
        BY <1>6 DEF CompleteSyncIn, ControlOK, outVars
      <4>3. call' \in Calls /\ cancellable' \in {"none", "set", "cancelled"} /\ cbErr' \in {"none", "io", "cancelled"}
        BY <1>6 DEF CompleteSyncIn, ControlOK, Calls
      <4>4. current' # NobodyAt <=> call' \in CommandCalls
        BY <1>6 DEF CompleteSyncIn, ControlOK, CommandCalls, outVars
      <4>5. owed' \in {0, 1} /\ (owed' = 1 <=> call' # "none")
        <5>1. owed = 1
          BY <1>6 DEF CompleteSyncIn, ControlOK
        <5>2. owed' = owed - 1 /\ call' = "none"
          BY <1>6 DEF CompleteSyncIn
        <5> QED BY <5>1, <5>2
      <4> QED BY <4>1, <4>2, <4>3, <4>4, <4>5, <3>1 DEF ControlOK
    <3>3. CallInv'
      BY <1>6 DEF CompleteSyncIn, ControlOK, CallInv, CommandCalls, InCalls, OutCalls, outVars
    <3> QED BY <3>2, <3>3
  <2> QED BY <2>1, <2>2
<1> QED BY <1>1, <1>2, <1>3, <1>4, <1>5, <1>6

LEMMA WithoutType == ASSUME NEW a, IsSettings(settings) PROVE IsSettings(Without(settings, a))
<1>1. {k \in DOMAIN settings : k[1] # a} \subseteq DOMAIN settings
  OBVIOUS
<1>2. DOMAIN settings \subseteq Accounts \X ClientProps /\ Range(settings) \subseteq Values
  BY DEF IsSettings
<1>3. /\ DOMAIN Without(settings, a) = {k \in DOMAIN settings : k[1] # a}
      /\ Range(Without(settings, a)) \subseteq Values
  BY <1>1, <1>2, RestrictType DEF Without
<1> QED BY <1>1, <1>2, <1>3 DEF IsSettings

LEMMA TypeWritten ==
    ASSUME TypeInv,
           \/ SessionStarted \/ SessionProxyCreated \/ TemplateRead \/ ConfigSet \/ ConfigNotSet
           \/ Detached \/ NoSession \/ SyncOutCancelled \/ CompleteSyncOut
    PROVE  TypeInv'
<1> USE DEF TypeInv
<1>1. CASE SessionStarted \/ SessionProxyCreated \/ TemplateRead
  <2>1. DataOK'
    BY <1>1 DEF SessionStarted, SessionProxyCreated, TemplateRead, DataOK, cacheVars, outVars
  <2>2. ControlOK' /\ CallInv'
    BY <1>1 DEF SessionStarted, SessionProxyCreated, TemplateRead, Replied, Await, ControlOK, CallInv, Calls,
                CommandCalls, InCalls, OutCalls, cacheVars, inVars, outVars, apiVars
  <2> QED BY <2>1, <2>2
<1>2. CASE ConfigSet
  <2>1. DataOK'
    BY <1>2, AppliedType, WithoutType DEF ConfigSet, Forget, DataOK, outVars
  <2>2. ControlOK' /\ CallInv'
    BY <1>2 DEF ConfigSet, Forget, Replied, Await, ControlOK, CallInv, Calls,
                CommandCalls, InCalls, OutCalls, inVars, outVars, apiVars
  <2> QED BY <2>1, <2>2
<1>3. CASE ConfigNotSet
  <2>1. DataOK'
    BY <1>3, UnheardType DEF ConfigNotSet, DataOK, cacheVars
  <2>2. ControlOK' /\ CallInv'
    BY <1>3, UnheardType DEF ConfigNotSet, Replied, Await, ControlOK, CallInv, Calls,
                CommandCalls, InCalls, OutCalls, cacheVars, inVars, apiVars
  <2> QED BY <2>1, <2>2
<1>4. CASE Detached \/ NoSession
  <2>1. DataOK'
    BY <1>4 DEF Detached, NoSession, DataOK, cacheVars
  <2>2. StepSyncOut(plan) /\ plan \in Plans
    BY <1>4 DEF Detached, NoSession, ControlOK
  <2>3. phase = "syncing out" /\ call # "none" /\ failed' \in BOOLEAN
        /\ UNCHANGED <<configs, cacheVars, inVars, wanted, unseen>>
    BY <1>4 DEF Detached, NoSession, Replied, ControlOK, CallInv, OutCalls, CommandCalls
  <2>4. ControlOK' /\ CallInv'
    BY <2>2, <2>3, StepSyncOutPlace DEF ControlOK, CallInv, cacheVars, inVars, apiVars
  <2> QED BY <2>1, <2>4
<1>5. CASE SyncOutCancelled
  <2>1. DataOK'
    BY <1>5, UnheardType DEF SyncOutCancelled, DataOK, cacheVars
  <2>2. ControlOK' /\ CallInv'
    BY <1>5, UnheardType DEF SyncOutCancelled, ControlOK, CallInv, Calls,
                CommandCalls, InCalls, OutCalls, cacheVars, apiVars
  <2> QED BY <2>1, <2>2
<1>6. CASE CompleteSyncOut
  <2>1. DataOK'
    BY <1>6, EmptyType DEF CompleteSyncOut, DataOK, cacheVars
  <2>2. ControlOK' /\ CallInv'
    <3>1. failed' \in BOOLEAN
      BY <1>6, Zenon DEF CompleteSyncOut
    <3>2. ControlOK'
      <4>1. accounts' \subseteq Accounts /\ newAccounts' \subseteq Accounts \ accounts' /\ unseen' \subseteq Accounts
        BY <1>6 DEF CompleteSyncOut, ControlOK, cacheVars
      <4>2. plan' \in Plans /\ completion' \in BOOLEAN
        BY <1>6, NothingType DEF CompleteSyncOut, ControlOK
      <4>3. call' \in Calls /\ cancellable' \in {"none", "set", "cancelled"} /\ cbErr' \in {"none", "io", "cancelled"}
        BY <1>6 DEF CompleteSyncOut, ControlOK, Calls
      <4>4. current' # NobodyAt <=> call' \in CommandCalls
        BY <1>6 DEF CompleteSyncOut, ControlOK, CommandCalls
      <4>5. owed' \in {0, 1} /\ (owed' = 1 <=> call' # "none")
        <5>1. owed = 1
          BY <1>6 DEF CompleteSyncOut, ControlOK
        <5>2. owed' = owed - 1 /\ call' = "none"
          BY <1>6 DEF CompleteSyncOut
        <5> QED BY <5>1, <5>2
      <4> QED BY <4>1, <4>2, <4>3, <4>4, <4>5, <3>1 DEF ControlOK
    <3>3. CallInv'
      BY <1>6 DEF CompleteSyncOut, ControlOK, CallInv, CommandCalls, InCalls, OutCalls
    <3> QED BY <3>2, <3>3
  <2> QED BY <2>1, <2>2
<1> QED BY <1>1, <1>2, <1>3, <1>4, <1>5, <1>6

LEMMA TypeElse == ASSUME TypeInv, OthersSet \/ OthersRemove \/ Restart \/ UNCHANGED vars PROVE TypeInv'
<1> USE DEF TypeInv
<1>1. CASE OthersSet
  <2>1. PICK a \in Accounts : configs' = (a :> Configs[a]) @@ configs /\ Others(a)
    BY <1>1 DEF OthersSet
  <2>2. DOMAIN configs' = {a} \cup DOMAIN configs
        /\ \A b \in {a} \cup DOMAIN configs : configs'[b] = IF b = a THEN Configs[a] ELSE configs[b]
    BY <2>1 DEF :>, @@
  <2>3. IsConfig(Configs[a])
    BY ConfigsAssumption DEF Range, IsConfig
  <2>4. DataOK'
    BY <2>1, <2>2, <2>3 DEF DataOK, Others, cacheVars, outVars
  <2>5. ControlOK' /\ CallInv'
    BY <2>1 DEF Others, ControlOK, CallInv, cacheVars, outVars, apiVars
  <2> QED BY <2>4, <2>5
<1>2. CASE OthersRemove
  <2>1. PICK a \in DOMAIN configs : configs' = Restrict(configs, DOMAIN configs \ {a}) /\ Others(a)
    BY <1>2 DEF OthersRemove
  <2>2. DOMAIN configs' = DOMAIN configs \ {a} /\ \A b \in DOMAIN configs' : configs'[b] = configs[b]
    BY <2>1 DEF Restrict
  <2>3. DataOK'
    BY <2>1, <2>2 DEF DataOK, Others, cacheVars, outVars
  <2>4. ControlOK' /\ CallInv'
    BY <2>1 DEF Others, DataOK, ControlOK, CallInv, cacheVars, outVars, apiVars
  <2> QED BY <2>3, <2>4
<1>3. CASE Restart
  <2>1. DataOK'
    BY <1>3, AppliedType, EmptyType DEF Restart, DataOK
  <2>2. ControlOK' /\ CallInv'
    <3>1. completion' \in BOOLEAN /\ failed' \in BOOLEAN
      BY <1>3, Zenon DEF Restart
    <3>2. ControlOK'
      <4>1. accounts' \subseteq Accounts /\ newAccounts' \subseteq Accounts \ accounts'
        BY <1>3 DEF Restart
      <4>2. plan' \in Plans
        BY <1>3, NothingType DEF Restart
      <4>3. call' \in Calls /\ cancellable' \in {"none", "set", "cancelled"} 
        BY <1>3 DEF Restart, Calls
      <4>4. current' # NobodyAt <=> call' \in CommandCalls
        BY <1>3 DEF Restart, CommandCalls
      <4>5. cbErr' \in {"none", "io", "cancelled"}
        BY <1>3 DEF Restart
      <4>6. owed' \in {0, 1} /\ (owed' = 1 <=> call' # "none")
        BY <1>3 DEF Restart
      <4>7. unseen' \subseteq Accounts
        BY <1>3 DEF Restart
      <4> QED BY <4>1, <4>2, <4>3, <4>4, <4>5, <4>6, <4>7, <3>1 DEF ControlOK
    <3>3. CallInv'
      BY <1>3 DEF Restart, CallInv, CommandCalls, InCalls, OutCalls
    <3> QED BY <3>2, <3>3
  <2> QED BY <2>1, <2>2
<1>4. CASE UNCHANGED vars
  <2>1. DataOK'
    BY <1>4 DEF vars, DataOK, cacheVars, outVars
  <2>2. ControlOK' /\ CallInv'
    BY <1>4 DEF vars, ControlOK, CallInv, cacheVars, outVars, apiVars
  <2> QED BY <2>1, <2>2
<1> QED BY <1>1, <1>2, <1>3, <1>4

LEMMA TypeNext == ASSUME TypeInv, [Next]_vars PROVE TypeInv'
BY TypeCalled, TypeRead, TypeWritten, TypeElse DEF Next, Chain, Local

LEMMA TypeInvariant == Spec => []TypeInv
<1>1. Init => TypeInv
  BY TypeInit
<1>2. TypeInv /\ [Next]_vars => TypeInv'
  BY TypeNext
<1> QED BY <1>1, <1>2, PTL DEF Spec

(* What the plugin keeps and what it writes is always of its kind: accounts *)
(* and configurations with settings that either side knows, and a call that *)
(* is owed exactly while one is under way.                                  *)
THEOREM SynceTypes == Spec => []TypeOK
<1>1. TypeInv => TypeOK
  BY TypesOK DEF TypeInv
<1> QED BY <1>1, TypeInvariant, PTL

-----------------------------------------------------------------------------
(* Each operation that provman asks for is answered, whichever call fails   *)
(* or is cancelled, no more than once, and by "cancelled" only if provman   *)
(* has asked for that: the safety half of the property Answers.             *)
THEOREM SynceAnswersOnce == Spec => Contract!Init /\ [][Contract!Next]_(Contract!vars)
<1>1. Init => Contract!Init
  BY DEF Init, Contract!Init
<1>2. ASSUME TypeInv, [Next]_vars PROVE [Contract!Next]_(Contract!vars)
  <2> USE <1>2 DEF TypeInv
  <2>1. CASE SyncIn
    BY <2>1 DEF SyncIn, Contract!Next, Contract!SyncIn, Contract!Ask
  <2>2. CASE SyncOut
    BY <2>2 DEF SyncOut, Contract!Next, Contract!SyncOut, Contract!Ask
  <2>3. CASE Abort
    BY <2>3 DEF Abort, Contract!Next, Contract!Abort
  <2>4. CASE Cancel
    BY <2>4 DEF Cancel, Contract!Next, Contract!Cancel
  <2>5. CASE Restart
    BY <2>5 DEF Restart, Contract!Next, Contract!Restart
  <2>6. CASE Chain
    <3>1. UNCHANGED apiVars
      BY <2>6 DEF Chain, ServerProxyCreated, GetConfigsDone, GetConfigDone, SyncInFailed, SessionStarted,
                  SessionProxyCreated, TemplateRead, ConfigSet, ConfigNotSet, Detached, NoSession, inVars
    <3> QED BY <3>1 DEF apiVars, Contract!vars
  <2>7. CASE SyncInCancelled \/ SyncOutCancelled
    BY <2>7 DEF SyncInCancelled, SyncOutCancelled, apiVars, Contract!vars
  <2>8. CASE CompleteSyncIn
    <3>1. call # "none" /\ phase = "syncing in"
      BY <2>8 DEF CompleteSyncIn, CallInv, InCalls
    <3>2. owed' = owed - 1 /\ result' = cbErr /\ UNCHANGED cancelled
          /\ phase' = IF cbErr = "none" THEN "open" ELSE "closed"
      BY <2>8 DEF CompleteSyncIn
    <3>3. owed = 1 /\ cbErr \in {"none", "io", "cancelled"} /\ (cbErr = "cancelled" => cancelled)
      BY <3>1 DEF ControlOK, CallInv
    <3>4. owed = 1 /\ owed' = 0 /\ result' \in Contract!Results
          /\ phase' = IF phase = "syncing in" /\ result' = "none" THEN "open" ELSE "closed"
      <4>1. owed = 1 /\ owed' = 0
        BY <3>2, <3>3
      <4>2. result' \in Contract!Results
        BY <3>2, <3>3 DEF Contract!Results
      <4>3. phase' = IF phase = "syncing in" /\ result' = "none" THEN "open" ELSE "closed"
        BY <3>1, <3>2
      <4> QED BY <4>1, <4>2, <4>3
    <3>5. result' = "cancelled" => cancelled
      BY <3>2, <3>3
    <3>6. Contract!Answer
      BY <3>2, <3>4, <3>5, Zenon DEF Contract!Answer
    <3> QED BY <3>6 DEF Contract!Next
  <2>9. CASE CompleteSyncOut
    <3>1. call # "none" /\ phase = "syncing out"
      BY <2>9 DEF CompleteSyncOut, CallInv, OutCalls
    <3>2. owed' = owed - 1 /\ result' = cbErr /\ UNCHANGED cancelled /\ phase' = "closed"
      BY <2>9 DEF CompleteSyncOut
    <3>3. owed = 1 /\ cbErr \in {"none", "io", "cancelled"} /\ (cbErr = "cancelled" => cancelled)
      BY <3>1 DEF ControlOK, CallInv
    <3>4. owed = 1 /\ owed' = 0 /\ result' \in Contract!Results
          /\ phase' = IF phase = "syncing in" /\ result' = "none" THEN "open" ELSE "closed"
      <4>1. owed = 1 /\ owed' = 0
        BY <3>2, <3>3
      <4>2. result' \in Contract!Results
        BY <3>2, <3>3 DEF Contract!Results
      <4>3. phase' = IF phase = "syncing in" /\ result' = "none" THEN "open" ELSE "closed"
        BY <3>1, <3>2
      <4> QED BY <4>1, <4>2, <4>3
    <3>5. result' = "cancelled" => cancelled
      BY <3>2, <3>3
    <3>6. Contract!Answer
      BY <3>2, <3>4, <3>5, Zenon DEF Contract!Answer
    <3> QED BY <3>6 DEF Contract!Next
  <2>10. CASE OthersSet \/ OthersRemove \/ UNCHANGED vars
    BY <2>10 DEF OthersSet, OthersRemove, Others, vars, apiVars, Contract!vars
  <2> QED BY <2>1, <2>2, <2>3, <2>4, <2>5, <2>6, <2>7, <2>8, <2>9, <2>10 DEF Next, Local
<1> QED BY <1>1, <1>2, TypeInvariant, PTL DEF Spec

-----------------------------------------------------------------------------
(* What has been read is what there is.                                     *)

LEMMA ViewIsFunction == ASSUME NEW c PROVE View(c) = [p \in DOMAIN View(c) |-> View(c)[p]]
BY DEF View

LEMMA OfEmpty == ASSUME NEW a PROVE Of(Empty, a) = Empty
<1>1. DOMAIN Empty = {}
  BY DEF Empty
<1>2. {q \in ClientProps : <<a, q>> \in DOMAIN Empty} = {}
  BY <1>1
<1> QED BY <1>2 DEF Of, Empty

(* Reading an account of which nothing is known, and forgetting one.        *)
LEMMA OfRead ==
    ASSUME NEW s, NEW a, NEW v, Of(s, a) = Empty, IsView(v), v = [p \in DOMAIN v |-> v[p]]
    PROVE  LET t == [k \in {<<a, p>> : p \in DOMAIN v} |-> v[k[2]]] @@ s
           IN  Of(t, a) = v /\ \A b : b # a => Of(t, b) = Of(s, b)
<1> DEFINE read == [k \in {<<a, p>> : p \in DOMAIN v} |-> v[k[2]]]
           t == read @@ s
<1>1. DOMAIN t = DOMAIN read \cup DOMAIN s /\ \A k \in DOMAIN t : t[k] = IF k \in DOMAIN read THEN read[k] ELSE s[k]
  BY DEF @@
<1>2. \A p : <<a, p>> \in DOMAIN read <=> p \in DOMAIN v
  OBVIOUS
<1>3. \A p \in DOMAIN v : read[<<a, p>>] = v[p]
  OBVIOUS
<1>4. \A b, p : b # a => <<b, p>> \notin DOMAIN read
  OBVIOUS
<1> HIDE DEF read, t
<1>5. {q \in ClientProps : <<a, q>> \in DOMAIN s} = {}
  <2>1. DOMAIN Of(s, a) = {q \in ClientProps : <<a, q>> \in DOMAIN s}
    BY DEF Of
  <2> QED BY <2>1, EmptyType
<1>6. {q \in ClientProps : <<a, q>> \in DOMAIN t} = DOMAIN v
  BY <1>1, <1>2, <1>5 DEF IsView
<1>7. Of(t, a) = v
  <2>1. Of(t, a) = [p \in DOMAIN v |-> t[<<a, p>>]]
    BY <1>6 DEF Of
  <2>2. \A p \in DOMAIN v : t[<<a, p>>] = v[p]
    BY <1>1, <1>2, <1>3
  <2> QED BY <2>1, <2>2
<1>8. ASSUME NEW b, b # a PROVE Of(t, b) = Of(s, b)
  <2>1. \A q : <<b, q>> \in DOMAIN t <=> <<b, q>> \in DOMAIN s
    BY <1>1, <1>4, <1>8
  <2>2. \A q : <<b, q>> \in DOMAIN s => t[<<b, q>>] = s[<<b, q>>]
    BY <1>1, <1>4, <1>8
  <2>3. {q \in ClientProps : <<b, q>> \in DOMAIN t} = {q \in ClientProps : <<b, q>> \in DOMAIN s}
    BY <2>1
  <2>4. Of(t, b) = [p \in {q \in ClientProps : <<b, q>> \in DOMAIN s} |-> t[<<b, p>>]]
    BY <2>3 DEF Of
  <2> QED BY <2>2, <2>4 DEF Of
<1> QED BY <1>7, <1>8 DEF t, read

LEMMA OfWithout ==
    ASSUME NEW s, NEW a
    PROVE  Of(Without(s, a), a) = Empty /\ \A b : b # a => Of(Without(s, a), b) = Of(s, b)
<1> DEFINE t == Without(s, a)
<1>1. DOMAIN t = {k \in DOMAIN s : k[1] # a} /\ \A k \in DOMAIN t : t[k] = s[k]
  BY DEF Without, Restrict
<1> HIDE DEF t
<1>2. {q \in ClientProps : <<a, q>> \in DOMAIN t} = {}
  BY <1>1
<1>3. Of(t, a) = Empty
  BY <1>2 DEF Of, Empty
<1>4. ASSUME NEW b, b # a PROVE Of(t, b) = Of(s, b)
  <2>1. \A q : <<b, q>> \in DOMAIN t <=> <<b, q>> \in DOMAIN s
    BY <1>1, <1>4
  <2>2. \A q : <<b, q>> \in DOMAIN s => t[<<b, q>>] = s[<<b, q>>]
    BY <1>1, <2>1
  <2>3. {q \in ClientProps : <<b, q>> \in DOMAIN t} = {q \in ClientProps : <<b, q>> \in DOMAIN s}
    BY <2>1
  <2>4. Of(t, b) = [p \in {q \in ClientProps : <<b, q>> \in DOMAIN s} |-> t[<<b, p>>]]
    BY <2>3 DEF Of
  <2> QED BY <2>2, <2>4 DEF Of
<1> QED BY <1>3, <1>4 DEF t

(* What is kept is what there is, except for accounts that have changed     *)
(* behind the plugin's back; what is not kept is still to be read, and once *)
(* the reading has succeeded nothing is.                                    *)
ReadInv ==
    /\ \A a \in Accounts \ accounts : Of(settings, a) = Empty
    /\ \A a \in accounts \ unseen : a \in DOMAIN configs /\ Of(settings, a) = View(configs[a])
    /\ call = "get config" \/ (call = "complete sync in" /\ cbErr = "none")
          => DOMAIN configs \subseteq accounts \cup newAccounts \cup unseen
    /\ call = "complete sync in" /\ cbErr = "none" => newAccounts = {}
    /\ phase = "open" => DOMAIN configs \subseteq accounts \cup unseen

LEMMA ReadInit == Init => ReadInv
BY OfEmpty DEF Init, ReadInv

LEMMA ReadStart == ASSUME TypeInv, ReadInv, SyncIn \/ SyncOut \/ Abort \/ Cancel PROVE ReadInv'
<1> USE DEF TypeInv
<1>1. CASE SyncIn
  BY <1>1 DEF SyncIn, Await, ReadInv, cacheVars
<1>2. CASE SyncOut
  <2>1. PICK new \in Edited(settings) : wanted' = new /\ StepSyncOut(Analyse(new))
    BY <1>2 DEF SyncOut
  <2>2. call' \in {"start session", "complete sync out"}
    BY <2>1 DEF StepSyncOut, Await
  <2> QED BY <1>2, <2>2 DEF SyncOut, ReadInv, cacheVars
<1>3. CASE Abort
  BY <1>3 DEF Abort, ReadInv, cacheVars
<1>4. CASE Cancel
  BY <1>4 DEF Cancel, ReadInv, cacheVars
<1> QED BY <1>1, <1>2, <1>3, <1>4

LEMMA ReadRead ==
    ASSUME TypeInv, ReadInv,
           ServerProxyCreated \/ GetConfigsDone \/ GetConfigDone \/ SyncInFailed \/ SyncInCancelled \/ CompleteSyncIn
    PROVE  ReadInv'
<1> USE DEF TypeInv
<1>1. CASE ServerProxyCreated
  BY <1>1 DEF ServerProxyCreated, Replied, Await, CallInv, InCalls, ReadInv, cacheVars, apiVars
<1>2. CASE GetConfigsDone
  <2> DEFINE todo == DOMAIN configs \ accounts
  <2>1. todo \in SUBSET Accounts /\ GetConfig(todo) /\ unseen' = unseen \cap accounts
        /\ call = "get configs" /\ UNCHANGED <<configs, cacheVars, phase>>
    BY <1>2 DEF GetConfigsDone, Replied, DataOK, apiVars
  <2>2. newAccounts' = todo /\ (call' = "complete sync in" => todo = {})
    BY <2>1, GetConfigPlace
  <2>3. phase' = "syncing in"
    BY <2>1 DEF CallInv, InCalls
  <2> QED BY <2>1, <2>2, <2>3 DEF ReadInv, cacheVars
<1>3. CASE GetConfigDone
  <2>1. PICK a \in newAccounts \cap DOMAIN configs :
           /\ accounts' = accounts \cup {a}
           /\ settings' = [k \in {<<a, p>> : p \in DOMAIN View(configs[a])} |-> View(configs[a])[k[2]]] @@ settings
           /\ GetConfig(newAccounts \ {a})
           /\ unseen' = unseen \ {a}
    BY <1>3 DEF GetConfigDone
  <2> DEFINE todo == newAccounts \ {a}
  <2>2. todo \in SUBSET Accounts /\ GetConfig(todo) /\ call = "get config" /\ UNCHANGED <<configs, phase>>
    BY <1>3, <2>1 DEF GetConfigDone, Replied, ControlOK, apiVars
  <2>3. newAccounts' = todo /\ (call' = "complete sync in" => todo = {})
    BY <2>2, GetConfigPlace
  <2>4. phase' = "syncing in"
    BY <2>2 DEF CallInv, InCalls
  <2>5. a \in Accounts \ accounts /\ IsConfig(configs[a])
    BY <2>1 DEF DataOK, ControlOK
  <2>6. Of(settings', a) = View(configs[a]) /\ \A b : b # a => Of(settings', b) = Of(settings, b)
    <3> DEFINE v == View(configs[a])
    <3>1. IsView(v) /\ v = [p \in DOMAIN v |-> v[p]]
      BY <2>5, ViewType, ViewIsFunction
    <3>2. Of(settings, a) = Empty
      BY <2>5 DEF ReadInv
    <3>3. settings' = [k \in {<<a, p>> : p \in DOMAIN v} |-> v[k[2]]] @@ settings
      BY <2>1
    <3> HIDE DEF v
    <3>4. Of(settings', a) = v /\ \A b : b # a => Of(settings', b) = Of(settings, b)
      BY <3>1, <3>2, <3>3, OfRead
    <3> QED BY <3>4 DEF v
  <2> QED BY <2>1, <2>2, <2>3, <2>4, <2>6 DEF ReadInv
<1>4. CASE SyncInFailed
  BY <1>4 DEF SyncInFailed, CompleteSyncInLater, Replied, CallInv, InCalls, ReadInv, cacheVars, apiVars
<1>5. CASE SyncInCancelled
  BY <1>5 DEF SyncInCancelled, CompleteSyncInLater, CallInv, InCalls, ReadInv, cacheVars, apiVars
<1>6. CASE CompleteSyncIn
  BY <1>6 DEF CompleteSyncIn, ReadInv, cacheVars
<1> QED BY <1>1, <1>2, <1>3, <1>4, <1>5, <1>6

LEMMA ReadWritten ==
    ASSUME TypeInv, ReadInv,
           \/ SessionStarted \/ SessionProxyCreated \/ TemplateRead \/ ConfigSet \/ ConfigNotSet
           \/ Detached \/ NoSession \/ SyncOutCancelled \/ CompleteSyncOut
    PROVE  ReadInv'
<1> USE DEF TypeInv
<1>1. CASE SessionStarted \/ SessionProxyCreated \/ TemplateRead
  BY <1>1 DEF SessionStarted, SessionProxyCreated, TemplateRead, Replied, Await, CallInv, OutCalls, CommandCalls,
              ReadInv, cacheVars, inVars, apiVars
<1>2. CASE ConfigSet
  <2> DEFINE a == current.account
  <2>1. configs' = Applied /\ settings' = Without(settings, a) /\ accounts' = accounts \ {a}
        /\ UNCHANGED <<unseen, phase>> /\ call' = "detach" /\ CanApply /\ phase = "syncing out"
    BY <1>2 DEF ConfigSet, Forget, Await, inVars, apiVars, CanApply, CallInv, OutCalls, CommandCalls
  <2>2. \A b \in DOMAIN configs : b # a => b \in DOMAIN Applied /\ Applied[b] = configs[b]
    BY <2>1, AppliedType
  <2>3. Of(settings', a) = Empty /\ \A b : b # a => Of(settings', b) = Of(settings, b)
    <3>1. Of(Without(settings, a), a) = Empty /\ \A b : b # a => Of(Without(settings, a), b) = Of(settings, b)
      BY OfWithout
    <3>2. settings' = Without(settings, a)
      BY <2>1
    <3> HIDE DEF a
    <3> QED BY <3>1, <3>2
  <2> QED BY <2>1, <2>2, <2>3 DEF ReadInv
<1>3. CASE ConfigNotSet \/ SyncOutCancelled
  <2>1. Unheard /\ UNCHANGED <<settings, accounts, phase>> /\ call' \in {"detach", "complete sync out"}
        /\ phase = "syncing out"
    BY <1>3 DEF ConfigNotSet, SyncOutCancelled, Replied, Await, cacheVars, inVars, apiVars, CallInv, OutCalls, CommandCalls
  <2>2. unseen \subseteq unseen' /\ \A b \in DOMAIN configs \ unseen' : b \in DOMAIN configs' /\ configs'[b] = configs[b]
    BY <2>1, AppliedType DEF Unheard
  <2> QED BY <2>1, <2>2 DEF ReadInv, ControlOK
<1>4. CASE Detached \/ NoSession
  <2>1. StepSyncOut(plan) /\ UNCHANGED <<configs, cacheVars, inVars, unseen>> /\ phase = "syncing out"
    BY <1>4 DEF Detached, NoSession, Replied, CallInv, OutCalls, CommandCalls
  <2>2. call' \in {"start session", "complete sync out"}
    BY <2>1 DEF StepSyncOut, Await
  <2> QED BY <2>1, <2>2 DEF ReadInv, cacheVars, inVars, apiVars
<1>5. CASE CompleteSyncOut
  BY <1>5 DEF CompleteSyncOut, ReadInv, cacheVars
<1> QED BY <1>1, <1>2, <1>3, <1>4, <1>5

LEMMA ReadElse == ASSUME TypeInv, ReadInv, OthersSet \/ OthersRemove \/ Restart \/ UNCHANGED vars PROVE ReadInv'
<1> USE DEF TypeInv
<1>1. CASE OthersSet
  <2>1. PICK a \in Accounts : configs' = (a :> Configs[a]) @@ configs /\ Others(a)
    BY <1>1 DEF OthersSet
  <2>2. DOMAIN configs' = {a} \cup DOMAIN configs /\ \A b \in DOMAIN configs : b # a => configs'[b] = configs[b]
    BY <2>1 DEF :>, @@
  <2> QED BY <2>1, <2>2 DEF ReadInv, Others, cacheVars, apiVars
<1>2. CASE OthersRemove
  <2>1. PICK a \in DOMAIN configs : configs' = Restrict(configs, DOMAIN configs \ {a}) /\ Others(a)
    BY <1>2 DEF OthersRemove
  <2>2. DOMAIN configs' = DOMAIN configs \ {a} /\ \A b \in DOMAIN configs' : configs'[b] = configs[b]
    BY <2>1 DEF Restrict
  <2> QED BY <2>1, <2>2 DEF ReadInv, Others, cacheVars, apiVars
<1>3. CASE Restart
  BY <1>3, OfEmpty DEF Restart, ReadInv
<1>4. CASE UNCHANGED vars
  BY <1>4 DEF vars, ReadInv, cacheVars, apiVars
<1> QED BY <1>1, <1>2, <1>3, <1>4

LEMMA ReadInvariant == Spec => []ReadInv
<1>1. Init => ReadInv
  BY ReadInit
<1>2. TypeInv /\ ReadInv /\ [Next]_vars => ReadInv'
  BY ReadStart, ReadRead, ReadWritten, ReadElse DEF Next, Chain, Local
<1> QED BY <1>1, <1>2, TypeInvariant, PTL DEF Spec

(* What a client is shown of its accounts is what SyncEvolution has,        *)
(* although the plugin reads an account once and keeps it: of every account *)
(* that has not been changed behind its back, after whatever failures,      *)
(* cancellations and restarts (prv_get_configs_cb, prv_get_config_cb,       *)
(* prv_context_set_cb, prv_context_removed_cb).                             *)
THEOREM SynceListsWhatIsThere == Spec => ListsWhatIsThere
<1>1. ASSUME TypeInv, ReadInv, CompleteSyncIn, result' = "none", NEW a \in Accounts \ unseen
      PROVE  Of(settings, a) = IF a \in DOMAIN configs THEN View(configs[a]) ELSE Empty
  <2>1. call = "complete sync in" /\ cbErr = "none"
    BY <1>1 DEF CompleteSyncIn
  <2>2. DOMAIN configs \subseteq accounts \cup unseen
    BY <1>1, <2>1 DEF ReadInv
  <2> QED BY <1>1, <2>2 DEF ReadInv
<1>2. TypeInv /\ ReadInv /\ [Next]_vars
         => [CompleteSyncIn /\ result' = "none" => \A a \in Accounts \ unseen :
                Of(settings, a) = IF a \in DOMAIN configs THEN View(configs[a]) ELSE Empty]_vars
  BY <1>1
<1> QED BY <1>2, TypeInvariant, ReadInvariant, PTL DEF Spec, ListsWhatIsThere

-----------------------------------------------------------------------------
(* What a client wants survives the conversion to a configuration and back, *)
(* unless one account has two kinds of contacts or another URL counts than  *)
(* the one that is written.                                                 *)

Contains(c, d) == \A q \in DOMAIN d : q \in DOMAIN c /\ c[q] = d[q]

Pure(s) == \A i, j \in {"uri", "sync"} : <<"contacts", i>> \notin DOMAIN s \/ <<"eas-contacts", j>> \notin DOMAIN s

(* The names of SyncEvolution's settings that the client's stand for.       *)
LEMMA PluginProps4 ==
    /\ PluginProp(<<"username">>) = <<"username">> /\ PluginProp(<<"url">>) = <<"syncURL">>
    /\ \A s \in {"contacts", "eas-contacts"}, i \in {"uri", "sync"} : PluginProp(<<s, i>>) = <<"addressbook", i>>
<1>1. ASSUME NEW s \in {"contacts", "eas-contacts"}, NEW i \in {"uri", "sync"}
      PROVE  PluginProp(<<s, i>>) = <<"addressbook", i>>
  <2>1. PluginProp(<<s, i>>) = <<PluginSource[s], i>>
    BY DEF PluginProp
  <2>2. PluginSource[s] = "addressbook"
    BY DEF PluginSource
  <2> QED BY <2>1, <2>2
<1>2. PluginProp(<<"username">>) = <<"username">> /\ PluginProp(<<"url">>) = <<"syncURL">>
  BY DEF PluginProp
<1> QED BY <1>1, <1>2

LEMMA MadeContext ==
    ASSUME NEW s, IsView(s), Pure(s)
    PROVE  LET own == MakeContext(s)
           IN  /\ \A p \in DOMAIN s : PluginProp(p) \in DOMAIN own /\ own[PluginProp(p)] = s[p]
               /\ \A b \in {"contacts", "eas-contacts"}, i \in {"uri", "sync"} : <<b, i>> \in DOMAIN s =>
                     <<"addressbook", "backend">> \in DOMAIN own /\ own[<<"addressbook", "backend">>] = Backend[b]
<1> DEFINE sources == {p \in DOMAIN s : p[1] \in DOMAIN Backend}
           keys == {PluginProp(p) : p \in DOMAIN s}
           kept == [q \in keys |-> s[CHOOSE p \in DOMAIN s : PluginProp(p) = q]]
           settled == {<<PluginSource[p[1]], "backend">> : p \in sources}
           backends == [q \in settled |-> Backend[(CHOOSE p \in sources : PluginSource[p[1]] = q[1])[1]]]
           own == MakeContext(s)
<1>1. own = kept @@ backends
  BY DEF MakeContext
<1>2. \A p, q \in DOMAIN s : PluginProp(p) = PluginProp(q) => p = q
  <2> SUFFICES ASSUME NEW p \in DOMAIN s, NEW q \in DOMAIN s, PluginProp(p) = PluginProp(q) PROVE p = q
    OBVIOUS
  <2>1. p \in ClientProps /\ q \in ClientProps
    BY DEF IsView
  <2>2. CASE p \in {<<"username">>, <<"url">>} \/ q \in {<<"username">>, <<"url">>}
    BY <2>1, <2>2, PluginProps4 DEF ClientProps
  <2>3. ASSUME NEW a \in {"contacts", "eas-contacts"}, NEW b \in {"contacts", "eas-contacts"},
               NEW i \in {"uri", "sync"}, NEW j \in {"uri", "sync"}, p = <<a, i>>, q = <<b, j>>
        PROVE  p = q
    <3>1. i = j
      BY <2>3, PluginProps4
    <3> QED BY <2>3, <3>1 DEF Pure
  <2> QED BY <2>1, <2>2, <2>3 DEF ClientProps
<1>3. \A p \in DOMAIN s : PluginProp(p) \in DOMAIN kept /\ kept[PluginProp(p)] = s[p]
  <2> TAKE p \in DOMAIN s
  <2>1. (CHOOSE r \in DOMAIN s : PluginProp(r) = PluginProp(p)) = p
    BY <1>2
  <2> QED BY <2>1
<1>4. <<"addressbook", "backend">> \notin DOMAIN kept
  BY PluginProps4 DEF IsView, ClientProps
<1>5. ASSUME NEW b \in {"contacts", "eas-contacts"}, NEW i \in {"uri", "sync"}, <<b, i>> \in DOMAIN s
      PROVE  <<"addressbook", "backend">> \in DOMAIN backends /\ backends[<<"addressbook", "backend">>] = Backend[b]
  <2>1. \A p \in sources : p[1] = b
    <3> SUFFICES ASSUME NEW p \in DOMAIN s, p[1] \in {"contacts", "eas-contacts"} PROVE p[1] = b
      BY BackendType
    <3>1. p \in ClientProps
      BY DEF IsView
    <3>2. PICK c \in {"contacts", "eas-contacts"}, j \in {"uri", "sync"} : p = <<c, j>>
      BY <3>1 DEF ClientProps
    <3> QED BY <1>5, <3>2 DEF Pure
  <2>2. <<b, i>> \in sources /\ PluginSource[b] = "addressbook"
    BY <1>5, BackendType
  <2>3. <<"addressbook", "backend">> \in settled
    BY <2>2
  <2>4. (CHOOSE p \in sources : PluginSource[p[1]] = "addressbook") \in sources
    BY <2>2
  <2> QED BY <2>1, <2>3, <2>4
<1> HIDE DEF kept, backends, own
<1>6. DOMAIN own = DOMAIN kept \cup DOMAIN backends
      /\ \A q \in DOMAIN own : own[q] = IF q \in DOMAIN kept THEN kept[q] ELSE backends[q]
  BY <1>1 DEF @@
<1>7. \A p \in DOMAIN s : PluginProp(p) \in DOMAIN own /\ own[PluginProp(p)] = s[p]
  BY <1>3, <1>6
<1>8. \A b \in {"contacts", "eas-contacts"}, i \in {"uri", "sync"} : <<b, i>> \in DOMAIN s =>
         <<"addressbook", "backend">> \in DOMAIN own /\ own[<<"addressbook", "backend">>] = Backend[b]
  BY <1>4, <1>5, <1>6
<1> QED BY <1>7, <1>8 DEF own

(* The client's name of each of SyncEvolution's settings.                   *)
LEMMA ShownAsFixed ==
    ASSUME NEW c
    PROVE  /\ ShownAs(c, <<"username">>) = <<"username">>
           /\ ShownAs(c, <<"syncURL">>) = <<"url">> /\ ShownAs(c, <<"WebURL">>) = <<"url">>
           /\ ShownAs(c, <<"addressbook", "backend">>) = <<"addressbook", "backend">>
<1>1. ShownAs(c, <<"syncURL">>) = <<"url">> /\ ShownAs(c, <<"WebURL">>) = <<"url">>
  BY DEF ShownAs
<1>2. ShownAs(c, <<"username">>) = <<"username">>
  BY DEF ShownAs
<1>3. ShownAs(c, <<"addressbook", "backend">>) = <<"addressbook", "backend">>
  BY DEF ShownAs
<1> QED BY <1>1, <1>2, <1>3

LEMMA ShownAsSource ==
    ASSUME NEW c, NEW b \in {"contacts", "eas-contacts"}, NEW i \in {"uri", "sync"},
           <<"addressbook", "backend">> \in DOMAIN c, c[<<"addressbook", "backend">>] = Backend[b]
    PROVE  ShownAs(c, <<"addressbook", i>>) = <<b, i>>
<1> DEFINE q == <<"addressbook", i>>
           sources == {s \in DOMAIN Backend : /\ <<"addressbook", "backend">> \in DOMAIN c
                                              /\ c[<<"addressbook", "backend">>] = Backend[s]
                                              /\ PluginSource[s] = "addressbook"}
<1>1. sources = {b}
  BY BackendType
<1>2. q[1] = "addressbook" /\ q[2] = i /\ q \in {"addressbook"} \X {"uri", "sync"}
      /\ q \notin {<<"syncURL">>, <<"WebURL">>}
  OBVIOUS
<1>3. {s \in DOMAIN Backend : /\ <<q[1], "backend">> \in DOMAIN c
                              /\ c[<<q[1], "backend">>] = Backend[s]
                              /\ PluginSource[s] = q[1]} = sources
  BY <1>2
<1>4. (CHOOSE s \in sources : TRUE) = b
  BY <1>1
<1> HIDE DEF q, sources
<1>5. ShownAs(c, q) = <<CHOOSE s \in sources : TRUE, q[2]>>
  <2>1. sources # {}
    BY <1>1
  <2> QED BY <1>2, <1>3, <2>1 DEF ShownAs
<1> QED BY <1>2, <1>4, <1>5 DEF q

LEMMA ShownAsWanted ==
    ASSUME NEW s, IsView(s), Pure(s), NEW c, IsConfig(c), Contains(c, MakeContext(s)),
           NEW p \in DOMAIN s, NEW q \in DOMAIN c
    PROVE  /\ PluginProp(p) \in DOMAIN c /\ c[PluginProp(p)] = s[p] /\ ShownAs(c, PluginProp(p)) = p
           /\ p # <<"url">> => (ShownAs(c, q) = p <=> q = PluginProp(p))
<1>1. PluginProp(p) \in DOMAIN c /\ c[PluginProp(p)] = s[p]
  BY MadeContext DEF Contains
<1>2. p \in ClientProps /\ q \in PluginProps
  BY DEF IsView, IsConfig
<1>3. \A b \in {"contacts", "eas-contacts"}, i, j \in {"uri", "sync"} : <<b, i>> \in DOMAIN s =>
         ShownAs(c, <<"addressbook", j>>) = <<b, j>>
  <2> SUFFICES ASSUME NEW b \in {"contacts", "eas-contacts"}, NEW i \in {"uri", "sync"}, NEW j \in {"uri", "sync"},
                      <<b, i>> \in DOMAIN s
               PROVE  ShownAs(c, <<"addressbook", j>>) = <<b, j>>
    OBVIOUS
  <2>1. <<"addressbook", "backend">> \in DOMAIN c /\ c[<<"addressbook", "backend">>] = Backend[b]
    BY MadeContext DEF Contains
  <2> QED BY <2>1, ShownAsSource
<1>4. CASE p = <<"url">>
  BY <1>1, <1>4, PluginProps4, ShownAsFixed
<1>5. CASE p = <<"username">>
  <2>1. PluginProp(p) = <<"username">> /\ ShownAs(c, <<"username">>) = p
    BY <1>5, PluginProps4, ShownAsFixed
  <2>2. ASSUME NEW j \in {"uri", "sync"} PROVE ShownAs(c, <<"addressbook", j>>) # p
    <3>1. <<"addressbook", j>> \notin {<<"syncURL">>, <<"WebURL">>} /\ <<"addressbook", j>> # <<"username">>
      OBVIOUS
    <3>2. \A x, y : <<x, y>> # p
      BY <1>5
    <3> QED BY <3>1, <3>2 DEF ShownAs
  <2>3. CASE q \in {<<"syncURL">>, <<"WebURL">>, <<"username">>, <<"addressbook", "backend">>}
    BY <1>1, <1>5, <2>1, <2>3, ShownAsFixed
  <2> QED BY <1>1, <1>2, <2>1, <2>2, <2>3 DEF PluginProps
<1>6. ASSUME NEW b \in {"contacts", "eas-contacts"}, NEW i \in {"uri", "sync"}, p = <<b, i>>
      PROVE  /\ ShownAs(c, PluginProp(p)) = p
             /\ ShownAs(c, q) = p <=> q = PluginProp(p)
  <2>1. PluginProp(p) = <<"addressbook", i>>
    BY <1>6, PluginProps4
  <2>2. \A j \in {"uri", "sync"} : ShownAs(c, <<"addressbook", j>>) = <<b, j>>
    BY <1>3, <1>6
  <2>3. CASE q \in {<<"syncURL">>, <<"WebURL">>, <<"username">>, <<"addressbook", "backend">>}
    BY <1>6, <2>1, <2>2, <2>3, ShownAsFixed
  <2>4. ASSUME NEW j \in {"uri", "sync"}, q = <<"addressbook", j>> PROVE ShownAs(c, q) = p <=> q = PluginProp(p)
    BY <1>6, <2>1, <2>2, <2>4
  <2> QED BY <1>2, <1>6, <2>1, <2>2, <2>3, <2>4 DEF PluginProps
<1> QED BY <1>1, <1>2, <1>4, <1>5, <1>6 DEF ClientProps

LEMMA SurvivesConversion ==
    ASSUME LastUrl = "syncURL",
           NEW s, IsView(s), Pure(s), NEW c, IsConfig(c), Contains(c, MakeContext(s)), NEW p \in DOMAIN s
    PROVE  p \in DOMAIN View(c) /\ View(c)[p] = s[p]
<1> DEFINE shows(x) == {q \in DOMAIN c : ShownAs(c, q) = x}
           q == PluginProp(p)
<1>1. View(c) = [x \in {y \in ClientProps : shows(y) # {}} |->
                    IF <<LastUrl>> \in shows(x) THEN c[<<LastUrl>>] ELSE c[CHOOSE r \in shows(x) : TRUE]]
  BY DEF View
<1>2. q \in DOMAIN c /\ c[q] = s[p] /\ ShownAs(c, q) = p
  <2>1. q \in DOMAIN c
    BY MadeContext DEF Contains
  <2> QED BY <2>1, ShownAsWanted
<1>3. q \in shows(p) /\ p \in ClientProps
  BY <1>2 DEF IsView
<1>4. CASE p = <<"url">>
  <2>1. q = <<LastUrl>>
    BY <1>4, PluginProps4
  <2> QED BY <1>1, <1>2, <1>3, <2>1
<1>5. CASE p # <<"url">>
  <2>1. shows(p) = {q}
    BY <1>3, <1>5, ShownAsWanted
  <2>2. (CHOOSE r \in shows(p) : TRUE) = q
    BY <2>1
  <2>3. <<LastUrl>> \notin shows(p)
    BY <1>5, ShownAsFixed
  <2> HIDE DEF shows, q
  <2>4. View(c)[p] = c[q] /\ p \in DOMAIN View(c)
    BY <1>1, <1>3, <2>2, <2>3
  <2> QED BY <1>2, <2>4
<1> QED BY <1>4, <1>5

-----------------------------------------------------------------------------
(* What has been written is what was wanted.                                *)

There(a) == IF a \in DOMAIN configs THEN View(configs[a]) ELSE Empty

Stored(a) ==
    /\ a \notin AccountsIn(wanted) => There(a) = Empty
    /\ \A p \in DOMAIN Of(wanted, a) : p \in DOMAIN There(a) /\ There(a)[p] = Of(wanted, a)[p]

(* The accounts whose turn is still to come, or has come.                   *)
Planned ==
    plan.remove \cup plan.add \cup plan.update
    \cup IF current = NobodyAt \/ call = "detach" THEN {} ELSE {current.account}

PlanFits ==
    /\ plan.remove \cap AccountsIn(wanted) = {} /\ plan.add \cup plan.update \subseteq AccountsIn(wanted)
    /\ current # NobodyAt => (current.job = "remove" <=> current.account \notin AccountsIn(wanted))

(* As long as no call has failed and nothing has been cancelled, the        *)
(* accounts whose turn is over, or was never needed, are as wanted.         *)
StoreInv ==
    phase = "syncing out" =>
        /\ CanMix \/ ~Mixes(wanted)
        /\ PlanFits
        /\ call = "complete sync out" /\ cbErr # "cancelled" => Planned = {}
        /\ ~failed /\ cbErr # "cancelled" => \A a \in Accounts \ (unseen \cup Planned) : Stored(a)

LEMMA WantedPure == ASSUME ~CanMix, IsSettings(wanted), CanMix \/ ~Mixes(wanted), NEW a PROVE Pure(Of(wanted, a))
<1> SUFFICES ASSUME NEW i \in {"uri", "sync"}, NEW j \in {"uri", "sync"},
                    <<"contacts", i>> \in DOMAIN Of(wanted, a), <<"eas-contacts", j>> \in DOMAIN Of(wanted, a)
             PROVE  FALSE
  BY DEF Pure
<1>1. <<a, <<"contacts", i>>>> \in DOMAIN wanted /\ <<a, <<"eas-contacts", j>>>> \in DOMAIN wanted
  BY OfType
<1>2. a \in AccountsIn(wanted)
  <2> DEFINE k == <<a, <<"contacts", i>>>>
  <2>1. k \in DOMAIN wanted /\ k[1] = a
    BY <1>1
  <2> QED BY <2>1 DEF AccountsIn
<1>3. Mixes(wanted)
  BY <1>1, <1>2 DEF Mixes
<1> QED BY <1>3

LEMMA NotThere == ASSUME NEW s, NEW a, a \notin AccountsIn(s) PROVE Of(s, a) = Empty
<1>1. \A q : <<a, q>> \notin DOMAIN s
  <2> SUFFICES ASSUME NEW q, <<a, q>> \in DOMAIN s PROVE FALSE
    OBVIOUS
  <2> DEFINE k == <<a, q>>
  <2>1. k \in DOMAIN s /\ k[1] = a
    OBVIOUS
  <2> QED BY <2>1 DEF AccountsIn
<1>2. {q \in ClientProps : <<a, q>> \in DOMAIN s} = {}
  BY <1>1
<1> QED BY <1>2 DEF Of, Empty

LEMMA ConfigContains ==
    ASSUME NEW f, NEW g
    PROVE  Contains(f @@ g, f)
BY DEF Contains, @@

(* SetConfig has been answered: the account is as wanted.                   *)
LEMMA AppliedStores ==
    ASSUME ~CanMix, LastUrl = "syncURL", TypeInv, PlanFits, CanMix \/ ~Mixes(wanted), CanApply, configs' = Applied,
           UNCHANGED wanted, NEW a, a = current.account
    PROVE  Stored(a)' /\ \A b \in Accounts : b # a => There(b)' = There(b)
<1> DEFINE s == Of(wanted, a)
<1>1. DataOK /\ ControlOK /\ CallInv /\ current # NobodyAt
  BY DEF TypeInv, CanApply, ControlOK, CommandCalls
<1>2. IsView(s) /\ Pure(s)
  BY <1>1, OfType, WantedPure DEF DataOK
<1>3. \A b \in Accounts : b # a => There(b)' = There(b)
  BY <1>1, AppliedType DEF There
<1>4. CASE current.job = "remove"
  <2>1. a \notin AccountsIn(wanted)
    BY <1>1, <1>4 DEF PlanFits
  <2>2. There(a)' = Empty
    <3>1. a \notin DOMAIN Applied
      BY <1>1, <1>4, AppliedType
    <3> QED BY <3>1 DEF There
  <2>3. Of(wanted, a) = Empty
    BY <2>1, NotThere
  <2>4. Stored(a)'
    <3>1. DOMAIN Of(wanted, a) = {}
      BY <2>3, EmptyType
    <3> QED BY <2>2, <3>1 DEF Stored
  <2> QED BY <1>3, <2>4
<1>5. CASE current.job # "remove"
  <2>1. a \in AccountsIn(wanted)
    BY <1>1, <1>5 DEF PlanFits
  <2>2. a \in DOMAIN Applied /\ IsConfig(Applied[a])
    BY <1>1, <1>5, AppliedType
  <2>3. Applied[a] = IF current.job = "add" THEN NewContext(a, s) ELSE MakeContext(s) @@ configs[a]
    BY <1>1, <1>5, AppliedType
  <2>4. Contains(Applied[a], MakeContext(s))
    <3>1. PICK g : NewContext(a, s) = MakeContext(s) @@ g
      BY DEF NewContext
    <3>2. Contains(NewContext(a, s), MakeContext(s))
      BY <3>1, ConfigContains
    <3>3. Contains(MakeContext(s) @@ configs[a], MakeContext(s))
      BY ConfigContains
    <3> QED BY <2>3, <3>2, <3>3
  <2>5. There(a)' = View(Applied[a])
    BY <2>2 DEF There
  <2>6. \A p \in DOMAIN s : p \in DOMAIN View(Applied[a]) /\ View(Applied[a])[p] = s[p]
    BY <1>2, <2>2, <2>4, SurvivesConversion
  <2>7. Stored(a)'
    BY <2>1, <2>5, <2>6 DEF Stored
  <2> QED BY <1>3, <2>7
<1> QED BY <1>4, <1>5

(* The next account is taken from the plan: none leaves it otherwise.       *)
LEMMA NextPlanned ==
    ASSUME NEW p \in Plans, StepSyncOut(p)
    PROVE  /\ Planned' = p.remove \cup p.add \cup p.update
           /\ call' = "complete sync out" => Planned' = {}
           /\ \A W : p.remove \cap W = {} /\ p.add \cup p.update \subseteq W =>
                 /\ plan'.remove \cap W = {} /\ plan'.add \cup plan'.update \subseteq W
                 /\ current' # NobodyAt => (current'.job = "remove" <=> current'.account \notin W)
<1>1. CASE call' = "complete sync out" /\ current' = NobodyAt /\ plan' = Nothing /\ p = Nothing
  BY <1>1 DEF Planned, Nothing
<1>2. ASSUME call' = "start session", NEW job \in Jobs, NEW a \in p[job], current' = [job |-> job, account |-> a],
             plan' = [p EXCEPT ![job] = @ \ {a}]
      PROVE  /\ Planned' = p.remove \cup p.add \cup p.update
             /\ call' = "complete sync out" => Planned' = {}
             /\ \A W : p.remove \cap W = {} /\ p.add \cup p.update \subseteq W =>
                   /\ plan'.remove \cap W = {} /\ plan'.add \cup plan'.update \subseteq W
                   /\ current' # NobodyAt => (current'.job = "remove" <=> current'.account \notin W)
  <2>1. current'.job = job /\ current'.account = a /\ current' # NobodyAt
    <3>1. current'.job = job /\ NobodyAt.job = "none"
      BY <1>2 DEF NobodyAt
    <3> QED BY <1>2, <3>1 DEF Jobs
  <2>2. Planned' = plan'.remove \cup plan'.add \cup plan'.update \cup {a}
    BY <1>2, <2>1 DEF Planned
  <2>3. \A j \in Jobs : plan'[j] = IF j = job THEN p[j] \ {a} ELSE p[j]
    BY <1>2 DEF Plans
  <2>4. \/ /\ job = "remove" /\ a \in p.remove
           /\ plan'.remove = p.remove \ {a} /\ plan'.add = p.add /\ plan'.update = p.update
        \/ /\ job = "add" /\ a \in p.add
           /\ plan'.remove = p.remove /\ plan'.add = p.add \ {a} /\ plan'.update = p.update
        \/ /\ job = "update" /\ a \in p.update
           /\ plan'.remove = p.remove /\ plan'.add = p.add /\ plan'.update = p.update \ {a}
    <3>1. job = "remove" \/ job = "add" \/ job = "update"
      BY DEF Jobs
    <3>2. a \in p[job]
      OBVIOUS
    <3> QED BY <2>3, <3>1, <3>2 DEF Jobs
  <2>5. Planned' = p.remove \cup p.add \cup p.update
    BY <2>2, <2>4
  <2>6. ASSUME NEW W, p.remove \cap W = {} /\ p.add \cup p.update \subseteq W
        PROVE  /\ plan'.remove \cap W = {} /\ plan'.add \cup plan'.update \subseteq W
               /\ job = "remove" <=> a \notin W
    BY <2>4, <2>6
  <2> QED BY <1>2, <2>1, <2>5, <2>6
<1> QED BY <1>1, <1>2, StepSyncOutType

(* A step that changes neither the plan nor an account that the plugin      *)
(* would know of.                                                           *)
LEMMA StoreKept ==
    ASSUME StoreInv, UNCHANGED <<phase, plan, wanted, current, failed, cbErr>>,
           call' = call \/ (call # "detach" /\ call' \notin {"detach", "complete sync out"}),
           unseen \subseteq unseen', \A b \in Accounts \ unseen' : There(b)' = There(b)
    PROVE  StoreInv'
<1>1. Planned' = Planned
  BY DEF Planned
<1>2. \A b \in Accounts \ unseen' : Stored(b) => Stored(b)'
  BY DEF Stored
<1> QED BY <1>1, <1>2 DEF StoreInv, PlanFits

LEMMA StoreSyncOut == ASSUME TypeInv, ReadInv, SyncOut PROVE StoreInv'
<1>1. PICK new \in Edited(settings) : (CanMix \/ ~Mixes(new)) /\ wanted' = new /\ StepSyncOut(Analyse(new))
  BY DEF SyncOut
<1> DEFINE p == Analyse(new)
<1>2. IsSettings(new)
  BY EditedType DEF TypeInv, DataOK
<1>3. /\ p \in Plans
      /\ p.remove = AccountsIn(settings) \ AccountsIn(new) /\ p.add = AccountsIn(new) \ AccountsIn(settings)
      /\ p.update = {a \in AccountsIn(new) \cap AccountsIn(settings) :
                        \E q \in DOMAIN Of(new, a) :
                           q \notin DOMAIN Of(settings, a) \/ Of(new, a)[q] # Of(settings, a)[q]}
  <2>1. AccountsIn(new) \subseteq Accounts /\ AccountsIn(settings) \subseteq Accounts
    BY <1>2 DEF AccountsIn, IsSettings, TypeInv, DataOK
  <2> QED BY <2>1 DEF Analyse, Plans, Jobs
<1>4. StepSyncOut(p)
  BY <1>1
<1> HIDE DEF p
<1>5. /\ Planned' = p.remove \cup p.add \cup p.update
      /\ call' = "complete sync out" => Planned' = {}
      /\ \A W : p.remove \cap W = {} /\ p.add \cup p.update \subseteq W =>
            /\ plan'.remove \cap W = {} /\ plan'.add \cup plan'.update \subseteq W
            /\ current' # NobodyAt => (current'.job = "remove" <=> current'.account \notin W)
  BY <1>3, <1>4, NextPlanned
<1>6. PlanFits'
  <2> DEFINE W == AccountsIn(new)
  <2>1. p.remove \cap W = {} /\ p.add \cup p.update \subseteq W
    BY <1>3
  <2>2. AccountsIn(wanted)' = W
    BY <1>1
  <2> HIDE DEF W
  <2> QED BY <1>5, <2>1, <2>2 DEF PlanFits
<1>7. ASSUME NEW a \in Accounts, a \notin unseen, a \notin Planned' PROVE Stored(a)'
  <2>1. phase = "open" /\ UNCHANGED configs
    BY DEF SyncOut
  <2>2. Of(settings, a) = There(a)
    BY <1>7, <2>1 DEF ReadInv, There
  <2>3. There(a)' = There(a) /\ Of(wanted, a)' = Of(new, a) /\ AccountsIn(wanted)' = AccountsIn(new)
    BY <1>1, <2>1 DEF There
  <2>4. CASE a \notin AccountsIn(new)
    <3>1. a \notin AccountsIn(settings)
      BY <1>3, <1>5, <1>7, <2>4
    <3>2. Of(settings, a) = Empty /\ DOMAIN Of(new, a) = {}
      BY <2>4, <3>1, NotThere, EmptyType
    <3> QED BY <2>2, <2>3, <3>2 DEF Stored
  <2>5. CASE a \in AccountsIn(new)
    <3>1. a \in AccountsIn(settings) /\ a \notin p.update
      BY <1>3, <1>5, <1>7, <2>5
    <3>2. \A q \in DOMAIN Of(new, a) : q \in DOMAIN Of(settings, a) /\ Of(new, a)[q] = Of(settings, a)[q]
      BY <1>3, <2>5, <3>1
    <3> QED BY <2>2, <2>3, <2>5, <3>2 DEF Stored
  <2> QED BY <2>4, <2>5
<1>8. (CanMix \/ ~Mixes(wanted))'
  BY <1>1
<1>9. UNCHANGED unseen
  BY DEF SyncOut
<1> QED BY <1>5, <1>6, <1>7, <1>8, <1>9 DEF StoreInv

LEMMA StoreWritten ==
    ASSUME ~CanMix, LastUrl = "syncURL", TypeInv, StoreInv,
           ConfigSet \/ ConfigNotSet \/ Detached \/ NoSession \/ SyncOutCancelled
    PROVE  StoreInv'
<1>1. call \in CommandCalls /\ phase = "syncing out" /\ UNCHANGED <<wanted, phase>>
  BY DEF ConfigSet, ConfigNotSet, Detached, NoSession, SyncOutCancelled, Replied, inVars, apiVars, outVars,
         CommandCalls, OutCalls, TypeInv, CallInv
<1>2. current # NobodyAt
  BY <1>1 DEF TypeInv, ControlOK
<1>3. (CanMix \/ ~Mixes(wanted)) /\ PlanFits
  BY <1>1 DEF StoreInv
<1>4. (CanMix \/ ~Mixes(wanted))'
  BY <1>1, <1>3
<1>5. CASE ConfigSet
  <2> DEFINE a == current.account
  <2>1. /\ CanApply /\ configs' = Applied /\ call = "set config" /\ call' = "detach"
        /\ UNCHANGED <<plan, wanted, current, failed, cbErr, unseen>>
    BY <1>5 DEF ConfigSet, Replied, Await, inVars, outVars
  <2>2. PlanFits'
    BY <1>3, <2>1 DEF PlanFits
  <2>3. Planned = Planned' \cup {a}
    BY <1>2, <2>1 DEF Planned
  <2>4. ASSUME NEW x, x = current.account
        PROVE  Stored(x)' /\ \A b \in Accounts : b # x => There(b)' = There(b)
    BY <1>3, <2>1, <2>4, AppliedStores
  <2>5. ASSUME ~failed, cbErr # "cancelled", NEW b \in Accounts, b \notin unseen, b \notin Planned'
        PROVE  Stored(b)'
    <3>1. CASE b = current.account
      BY <2>4, <3>1
    <3>2. CASE b # current.account
      <4>1. Stored(b)
        BY <1>1, <2>3, <2>5, <3>2 DEF StoreInv
      <4>2. There(b)' = There(b)
        BY <2>4, <3>2
      <4> QED BY <2>1, <4>1, <4>2 DEF Stored
    <3> QED BY <3>1, <3>2
  <2> QED BY <1>4, <2>1, <2>2, <2>5 DEF StoreInv
<1>6. CASE ConfigNotSet
  <2>1. call' = "detach" /\ failed' = TRUE /\ UNCHANGED <<plan, wanted, current>>
    BY <1>6 DEF ConfigNotSet, Await
  <2>2. PlanFits'
    BY <1>3, <2>1 DEF PlanFits
  <2> QED BY <1>4, <2>1, <2>2 DEF StoreInv
<1>7. CASE SyncOutCancelled
  <2>1. cbErr' = "cancelled" /\ current' = NobodyAt /\ UNCHANGED <<plan, wanted>>
    BY <1>7 DEF SyncOutCancelled
  <2>2. PlanFits'
    BY <1>3, <2>1 DEF PlanFits
  <2> QED BY <1>4, <2>1, <2>2 DEF StoreInv
<1>8. CASE Detached \/ NoSession
  <2>1. StepSyncOut(plan) /\ plan \in Plans /\ UNCHANGED <<configs, cbErr, unseen>>
    BY <1>8 DEF Detached, NoSession, TypeInv, ControlOK, inVars
  <2>2. /\ Planned' = plan.remove \cup plan.add \cup plan.update
        /\ call' = "complete sync out" => Planned' = {}
        /\ \A W : plan.remove \cap W = {} /\ plan.add \cup plan.update \subseteq W =>
              /\ plan'.remove \cap W = {} /\ plan'.add \cup plan'.update \subseteq W
              /\ current' # NobodyAt => (current'.job = "remove" <=> current'.account \notin W)
    BY <2>1, NextPlanned
  <2>3. PlanFits'
    BY <1>1, <1>3, <2>2 DEF PlanFits
  <2>4. CASE NoSession
    <3>1. failed' = TRUE
      BY <2>4 DEF NoSession
    <3> QED BY <1>4, <2>2, <2>3, <3>1 DEF StoreInv
  <2>5. CASE Detached
    <3>1. call = "detach" /\ UNCHANGED failed
      BY <2>5 DEF Detached, Replied
    <3>2. Planned' = Planned
      BY <2>2, <3>1 DEF Planned
    <3>3. \A b \in Accounts : Stored(b) => Stored(b)'
      BY <1>1, <2>1 DEF Stored, There
    <3> QED BY <1>1, <1>4, <2>1, <2>2, <2>3, <3>1, <3>2, <3>3 DEF StoreInv
  <2> QED BY <1>8, <2>4, <2>5
<1> QED BY <1>5, <1>6, <1>7, <1>8

LEMMA StoreElse ==
    ASSUME TypeInv, StoreInv,
           \/ SyncIn \/ Abort \/ Cancel \/ Restart
           \/ ServerProxyCreated \/ GetConfigsDone \/ GetConfigDone \/ SyncInFailed \/ SyncInCancelled \/ CompleteSyncIn
           \/ SessionStarted \/ SessionProxyCreated \/ TemplateRead \/ CompleteSyncOut
           \/ OthersSet \/ OthersRemove \/ UNCHANGED vars
    PROVE  StoreInv'
<1> USE DEF TypeInv
<1>1. CASE SyncIn \/ Abort \/ Restart \/ CompleteSyncIn \/ CompleteSyncOut
  <2>1. phase' # "syncing out"
    BY <1>1 DEF SyncIn, Abort, Restart, CompleteSyncIn, CompleteSyncOut
  <2> QED BY <2>1 DEF StoreInv
<1>2. CASE ServerProxyCreated \/ GetConfigsDone \/ GetConfigDone \/ SyncInFailed \/ SyncInCancelled
  <2>1. phase' = "syncing in"
    BY <1>2 DEF ServerProxyCreated, GetConfigsDone, GetConfigDone, SyncInFailed, SyncInCancelled, Replied, apiVars,
                CallInv, InCalls
  <2> QED BY <2>1 DEF StoreInv
<1>3. CASE SessionStarted \/ SessionProxyCreated \/ TemplateRead
  <2>1. /\ call # "detach" /\ call' \notin {"detach", "complete sync out"}
        /\ UNCHANGED <<configs, phase, plan, wanted, current, failed, cbErr, unseen>>
    BY <1>3 DEF SessionStarted, SessionProxyCreated, TemplateRead, Replied, Await, outVars, inVars, apiVars
  <2>2. \A b \in Accounts : There(b)' = There(b)
    BY <2>1 DEF There
  <2> QED BY <2>1, <2>2, StoreKept
<1>4. CASE Cancel \/ UNCHANGED vars
  <2>1. UNCHANGED <<configs, call, phase, plan, wanted, current, failed, cbErr, unseen>>
    BY <1>4 DEF Cancel, vars, outVars, apiVars
  <2>2. \A b \in Accounts : There(b)' = There(b)
    BY <2>1 DEF There
  <2> QED BY <2>1, <2>2, StoreKept
<1>5. CASE OthersSet
  <2>1. PICK a \in Accounts : configs' = (a :> Configs[a]) @@ configs /\ Others(a)
    BY <1>5 DEF OthersSet
  <2>2. DOMAIN configs' = {a} \cup DOMAIN configs /\ \A b \in DOMAIN configs : b # a => configs'[b] = configs[b]
    BY <2>1 DEF :>, @@
  <2>3. UNCHANGED <<call, phase, plan, wanted, current, failed, cbErr>> /\ unseen' = unseen \cup {a}
    BY <2>1 DEF Others, outVars, apiVars
  <2>4. \A b \in Accounts \ unseen' : There(b)' = There(b)
    BY <2>2, <2>3 DEF There
  <2> QED BY <2>3, <2>4, StoreKept
<1>6. CASE OthersRemove
  <2>1. PICK a \in DOMAIN configs : configs' = Restrict(configs, DOMAIN configs \ {a}) /\ Others(a)
    BY <1>6 DEF OthersRemove
  <2>2. DOMAIN configs' = DOMAIN configs \ {a} /\ \A b \in DOMAIN configs' : configs'[b] = configs[b]
    BY <2>1 DEF Restrict
  <2>3. UNCHANGED <<call, phase, plan, wanted, current, failed, cbErr>> /\ unseen' = unseen \cup {a}
    BY <2>1 DEF Others, outVars, apiVars
  <2>4. \A b \in Accounts \ unseen' : There(b)' = There(b)
    BY <2>2, <2>3 DEF There
  <2> QED BY <2>3, <2>4, StoreKept
<1> QED BY <1>1, <1>2, <1>3, <1>4, <1>5, <1>6

(* What a client has written is what SyncEvolution has, account by account  *)
(* and under the names that it has for things, of every account that has    *)
(* not been changed behind the plugin's back, if no call has failed:        *)
(* provided that no account is given two kinds of contacts, and that the    *)
(* URL that is written is the one that counts (synce_plugin_sync_out,       *)
(* prv_analyse, prv_make_context, prv_context_add_cb).  Without the one     *)
(* proviso or the other it is not so.                                       *)
THEOREM SynceStoresAsWanted ==
    ASSUME ~CanMix, LastUrl = "syncURL"
    PROVE  Spec => StoredAsWanted
<1>1. Init => StoreInv
  BY DEF Init, StoreInv
<1>2. TypeInv /\ ReadInv /\ StoreInv /\ [Next]_vars => StoreInv'
  BY StoreSyncOut, StoreWritten, StoreElse DEF Next, Chain, Local
<1>3. Spec => []StoreInv
  BY <1>1, <1>2, TypeInvariant, ReadInvariant, PTL DEF Spec
<1>4. ASSUME TypeInv, StoreInv, CompleteSyncOut, result' = "none", ~failed, NEW a \in Accounts \ unseen
      PROVE  LET there == IF a \in DOMAIN configs THEN View(configs[a]) ELSE Empty
             IN  /\ a \notin AccountsIn(wanted) => there = Empty
                 /\ \A p \in DOMAIN Of(wanted, a) : p \in DOMAIN there /\ there[p] = Of(wanted, a)[p]
  <2>1. call = "complete sync out" /\ cbErr = "none"
    BY <1>4 DEF CompleteSyncOut
  <2>2. phase = "syncing out"
    BY <1>4, <2>1 DEF TypeInv, CallInv, OutCalls
  <2>3. Stored(a)
    BY <1>4, <2>1, <2>2 DEF StoreInv
  <2> QED BY <2>3 DEF Stored, There
<1>5. TypeInv /\ StoreInv /\ [Next]_vars
         => [CompleteSyncOut /\ result' = "none" /\ ~failed => \A a \in Accounts \ unseen :
                LET there == IF a \in DOMAIN configs THEN View(configs[a]) ELSE Empty
                IN  /\ a \notin AccountsIn(wanted) => there = Empty
                    /\ \A p \in DOMAIN Of(wanted, a) : p \in DOMAIN there /\ there[p] = Of(wanted, a)[p]]_vars
  BY <1>4
<1> QED BY <1>3, <1>5, TypeInvariant, PTL DEF Spec, StoredAsWanted
=============================================================================
