-------------------------- MODULE PluginManagerProofs --------------------------
(***************************************************************************)
(* What PluginManager.tla promises for any number of plugins and any        *)
(* settings: its type invariant, that a session leaves nothing to the next  *)
(* one, and, when plugins do not fail during a Set, that whatever is cached *)
(* belongs to a plugin that is synchronised, and that it implements         *)
(* Settings.                                                                *)
(***************************************************************************)
EXTENDS PluginManager, SequenceTheorems, TLAPS

-----------------------------------------------------------------------------
(* Types of commands and of their outcomes. *)

OutcomeType ==
    [err : {"none", "not_found"}, values : UNION {[ks -> Values] : ks \in SUBSET Keys},
     refused : SUBSET Keys, cache : Contents]

(* A command names settings. *)
LEMMA NamedType ==
    ASSUME NEW c \in CommandType
    PROVE  Named(c) \subseteq Keys
BY DEF Named, CommandType, Range

(* What provman_cache_get and provman_cache_get_all return has no gaps. *)
LEMMA ValuedType ==
    ASSUME NEW ca \in Contents, NEW ks \in SUBSET Keys
    PROVE  Valued(ca, ks) \in UNION {[s -> Values] : s \in SUBSET Keys}
<1>1. Present(ca, ks) \in SUBSET Keys
  BY DEF Present
<1>2. Valued(ca, ks) \in [Present(ca, ks) -> Values]
  BY DEF Valued, Present, Contents
<1> QED BY <1>1, <1>2

LEMMA NothingType == Nothing \in UNION {[s -> Values] : s \in SUBSET Keys}
<1>1. Nothing \in [{} -> Values]
  BY DEF Nothing
<1> QED BY <1>1

LEMMA AssignType ==
    ASSUME NEW ca \in Contents, NEW ks, NEW v \in Values \cup {Missing}
    PROVE  Assign(ca, ks, v) \in Contents
BY DEF Assign, Contents

(* Whatever a command does to the cache, it leaves a cache. *)
LEMMA SyncFinishedType ==
    ASSUME NEW c \in CommandType, c.op \in Ops, NEW ca \in Contents, NEW syn \in [Plugins -> BOOLEAN]
    PROVE  SyncFinished(c, ca, syn) \in OutcomeType
<1> DEFINE V == UNION {[s -> Values] : s \in SUBSET Keys}
<1>1. \A e \in {"none", "not_found"}, vs \in V, r \in SUBSET Keys, ch \in Contents :
         Outcome(e, vs, r, ch) \in OutcomeType
  BY DEF Outcome, OutcomeType
<1>2. /\ Named(c) \in SUBSET Keys
      /\ Named(c) \ ReadOnly \in SUBSET Keys
      /\ c.value \in Values \cup {Missing}
      /\ Missing \in Values \cup {Missing}
  BY NamedType DEF CommandType
<1>3. Valued(ca, Named(c)) \in V /\ Nothing \in V
  BY <1>2, ValuedType, NothingType
<1>4. {} \in SUBSET Keys /\ \A ks : Named(c) \ ks \in SUBSET Keys
  BY <1>2
<1>5. \A ks : Assign(ca, ks, c.value) \in Contents /\ Assign(ca, ks, Missing) \in Contents
  BY <1>2, AssignType
<1> HIDE DEF V
<1>6. GetCb(c, ca) \in OutcomeType
  BY <1>1, <1>3, <1>4 DEF GetCb
<1>7. GetAllCb(c, ca) \in OutcomeType
  BY <1>6 DEF GetAllCb
<1>8. GetMultipleCb(c, ca) \in OutcomeType
  BY <1>1, <1>3, <1>4 DEF GetMultipleCb
<1>9. SetCb(c, ca) \in OutcomeType
  BY <1>1, <1>3, <1>4, <1>5 DEF SetCb
<1>10. SetMultipleCb(c, ca, syn) \in OutcomeType
  BY <1>1, <1>3, <1>4, <1>5 DEF SetMultipleCb
<1>11. RemoveCb(c, ca) \in OutcomeType
  BY <1>1, <1>3, <1>4, <1>5 DEF RemoveCb
<1>12. RemoveMultipleCb(c, ca) \in OutcomeType
  BY <1>1, <1>3, <1>4, <1>5 DEF RemoveMultipleCb
<1> QED BY <1>6, <1>7, <1>8, <1>9, <1>10, <1>11, <1>12 DEF SyncFinished, Ops

LEMMA CommandIsCommand ==
    ASSUME NEW op \in Ops \cup {"end", "none"}, NEW args \in Seq(SUBSET Keys),
           NEW value \in Values \cup {Missing}, NEW indicies \in Seq(Plugins)
    PROVE  /\ Command(op, args, value, indicies) \in CommandType
           /\ Command(op, args, value, indicies).op = op
           /\ Command(op, args, value, indicies).args = args
           /\ Command(op, args, value, indicies).indicies = indicies
           /\ Command(op, args, value, indicies).current
                 \in 1..Len(Command(op, args, value, indicies).indicies) + 1
<1>1. Len(indicies) \in Nat
  BY LenProperties
<1>2. Command(op, args, value, indicies) \in CommandType
  BY NothingType DEF Command, CommandType
<1> QED BY <1>1, <1>2 DEF Command

(* A command that is given its result is a command. *)
WithResult(c, n, out) ==
    [c EXCEPT !.current = n, !.err = out.err, !.values = out.values, !.refused = out.refused]

LEMMA ResultIsCommand ==
    ASSUME NEW c \in CommandType, NEW n \in Nat, NEW out \in OutcomeType
    PROVE  /\ WithResult(c, n, out) \in CommandType /\ WithResult(c, n, out).current = n
           /\ WithResult(c, n, out).op = c.op /\ WithResult(c, n, out).args = c.args
           /\ WithResult(c, n, out).indicies = c.indicies
<1> DEFINE Same(d) == d.op = c.op /\ d.args = c.args /\ d.indicies = c.indicies /\ d.current = n
           c1 == [c EXCEPT !.current = n]
           c2 == [c1 EXCEPT !.err = out.err]
           c3 == [c2 EXCEPT !.values = out.values]
           c4 == [c3 EXCEPT !.refused = out.refused]
<1>1. c1 \in CommandType /\ Same(c1)
  BY DEF CommandType
<1> HIDE DEF c1
<1>2. c2 \in CommandType /\ Same(c2)
  BY <1>1 DEF CommandType, OutcomeType
<1> HIDE DEF c2
<1>3. c3 \in CommandType /\ Same(c3)
  BY <1>2 DEF CommandType, OutcomeType
<1> HIDE DEF c3
<1>4. c4 \in CommandType /\ Same(c4)
  BY <1>3 DEF CommandType, OutcomeType
<1> QED BY <1>4 DEF WithResult, c1, c2, c3

-----------------------------------------------------------------------------
(* The loop over the plugins of a command. *)

(* What prv_sync_plugins does: from the i-th plugin on the command runs, or *)
(* a plugin is synchronised that was not.                                   *)
Synchronising(c) ==
    /\ state' = "SYNC_IN" /\ UNCHANGED completion
    /\ cmd'.current \in 1..Len(c.indicies)
    /\ at' = c.indicies[cmd'.current]

LEMMA SyncPluginsType ==
    ASSUME NEW c \in CommandType, c.op \in Ops, NEW i \in Nat \ {0},
           NEW ca \in Contents, NEW syn \in [Plugins -> BOOLEAN], NEW lost \in SUBSET Plugins,
           SyncPlugins(c, i, ca, syn, lost)
    PROVE  /\ unavailable' \subseteq Plugins
           /\ synced' = syn
           /\ cmd' \in CommandType /\ cmd'.current \in 1..Len(cmd'.indicies) + 1
           /\ cmd'.op = c.op /\ cmd'.args = c.args /\ cmd'.indicies = c.indicies
           /\ cache' \in Contents
           /\ \/ completion' = TRUE /\ UNCHANGED <<at, state>>
              \/ Synchronising(c)
<1> DEFINE Refusing(j) == {p \in {c.indicies[n] : n \in i..j - 1} : ~syn[p]}
<1>1. PICK j \in i..Len(c.indicies) + 1 :
         /\ unavailable' = lost \cup Refusing(j)
         /\ synced' = syn
         /\ IF j > Len(c.indicies)
            THEN Run(c, ca, syn) /\ UNCHANGED <<at, state>>
            ELSE /\ at' = c.indicies[j] /\ state' = "SYNC_IN"
                 /\ cmd' = [c EXCEPT !.current = j]
                 /\ cache' = ca
                 /\ UNCHANGED completion
  BY DEF SyncPlugins
<1>2. c.indicies \in Seq(Plugins) /\ Len(c.indicies) \in Nat
  BY LenProperties DEF CommandType
<1>3. j \in Nat \ {0} /\ i \in Nat \ {0}
  BY <1>1, <1>2
<1>4. Refusing(j) \subseteq Plugins
  <2>1. \A n \in i..j - 1 : n \in 1..Len(c.indicies)
    BY <1>1, <1>2, <1>3
  <2>2. \A n \in i..j - 1 : c.indicies[n] \in Plugins
    BY <2>1, <1>2, ElementOfSeq
  <2> QED BY <2>2
<1>5. unavailable' \subseteq Plugins
  BY <1>1, <1>4
<1>6. CASE j > Len(c.indicies)
  <2> DEFINE out == SyncFinished(c, ca, syn)
  <2>1. out \in OutcomeType
    BY SyncFinishedType
  <2>2. /\ cmd' = WithResult(c, Len(c.indicies) + 1, out)
        /\ cache' = out.cache /\ completion' = TRUE
        /\ UNCHANGED <<at, state>>
    BY <1>1, <1>6 DEF Run, WithResult
  <2> HIDE DEF out
  <2>3. /\ cmd' \in CommandType /\ cmd'.current = Len(c.indicies) + 1
        /\ cmd'.op = c.op /\ cmd'.args = c.args /\ cmd'.indicies = c.indicies
    <3>1. Len(c.indicies) + 1 \in Nat
      BY <1>2
    <3> QED BY <2>1, <2>2, <3>1, ResultIsCommand
  <2>4. cache' \in Contents
    BY <2>1, <2>2 DEF OutcomeType
  <2> QED BY <2>2, <2>3, <2>4, <1>1, <1>2, <1>5
<1>7. CASE ~(j > Len(c.indicies))
  <2>1. j \in 1..Len(c.indicies)
    BY <1>7, <1>2, <1>3
  <2>2. /\ cmd' = [c EXCEPT !.current = j] /\ at' = c.indicies[j] /\ state' = "SYNC_IN"
        /\ cache' = ca /\ UNCHANGED completion
    BY <1>1, <1>7
  <2>3. /\ cmd' \in CommandType /\ cmd'.current = j
        /\ cmd'.op = c.op /\ cmd'.args = c.args /\ cmd'.indicies = c.indicies
    BY <2>2, <1>3 DEF CommandType
  <2> QED BY <2>1, <2>2, <2>3, <1>1, <1>2, <1>5 DEF Synchronising
<1> QED BY <1>6, <1>7

(* prv_sync_out_next_plugin: another plugin is asked to store, or the        *)
(* session is over.                                                         *)
LEMMA SyncOutFromType ==
    ASSUME TypeOK, NEW i \in Nat \ {0}, NEW c \in CommandType, c.current \in 1..Len(c.indicies) + 1,
           NEW lost \in SUBSET Plugins, SyncOutFrom(i, c, lost)
    PROVE  /\ failed' \subseteq Plugins
           /\ at' \in 0..NPlugins + 1 /\ state' = "SYNC_OUT"
           /\ cmd' \in CommandType /\ cmd'.current \in 1..Len(cmd'.indicies) + 1
           /\ \/ completion' = TRUE /\ SessionOver
              \/ at' \in Plugins /\ UNCHANGED <<cache, synced, completion, open, unavailable>>
<1>1. PICK j \in i..NPlugins + 1 :
         /\ failed' = lost \cup {p \in i..j - 1 : synced[p]}
         /\ at' = j /\ state' = "SYNC_OUT"
         /\ IF j > NPlugins
            THEN /\ SessionOver
                 /\ cmd' = [c EXCEPT !.err = "none"] /\ completion' = TRUE
            ELSE /\ synced[j]
                 /\ cmd' = c
                 /\ UNCHANGED <<cache, synced, completion, open, unavailable>>
  BY DEF SyncOutFrom
<1>2. NPlugins \in Nat /\ j \in Nat \ {0} /\ j \in 0..NPlugins + 1
  BY <1>1, PluginsAssumption
<1>3. i..j - 1 \subseteq Plugins
  BY <1>1, <1>2 DEF Plugins
<1>4. CASE j > NPlugins
  <2>1. cmd' = [c EXCEPT !.err = "none"]
    BY <1>1, <1>4
  <2>2. cmd' \in CommandType /\ cmd'.current = c.current /\ cmd'.indicies = c.indicies
    BY <2>1 DEF CommandType
  <2> QED BY <1>1, <1>2, <1>3, <1>4, <2>2
<1>5. CASE ~(j > NPlugins)
  <2>1. j \in Plugins
    BY <1>2, <1>5 DEF Plugins
  <2>2. cmd' = c /\ UNCHANGED <<cache, synced, completion, open, unavailable>>
    BY <1>1, <1>5
  <2> QED BY <1>1, <1>2, <1>3, <2>1, <2>2
<1> QED BY <1>4, <1>5

(* plugin_manager_abort and the end of prv_sync_out_next_plugin.            *)
LEMMA SessionOverType ==
    ASSUME SessionOver
    PROVE  /\ cache' = Empty /\ cache' \in Contents
           /\ synced' = NoneSynced /\ synced' \in [Plugins -> BOOLEAN]
           /\ open' = FALSE /\ unavailable' = {}
BY DEF SessionOver, ClearCache, Empty, NoneSynced, Contents

LEMMA StoreType ==
    ASSUME TypeOK, NEW ks, Store(ks)
    PROVE  stored' \in Contents
BY DEF Store, TypeOK, Contents

LEMMA WithSettingsType ==
    ASSUME TypeOK, NEW p
    PROVE  WithSettings(p) \in Contents
BY DEF WithSettings, TypeOK, Contents

-----------------------------------------------------------------------------
(* Commands. *)

(* The plugins of the settings that a command names are among those it      *)
(* synchronises.                                                            *)
Covered(args, indicies) ==
    \A k \in UNION Range(args) : \E n \in 1..Len(indicies) : indicies[n] = Owner[k]

(* prv_add_plugin_index returns plugins. *)
LEMMA IndiciesType ==
    ASSUME NEW ks \in SUBSET Keys, ks # {}
    PROVE  IndiciesOf(ks) \in Seq(Plugins)
<1>1. [p \in Plugins |-> p] \in Seq(Plugins)
  BY PluginsAssumption DEF Plugins
<1>2. (CHOOSE k \in ks : TRUE) \in Keys
  OBVIOUS
<1>3. Owner[CHOOSE k \in ks : TRUE] \in Plugins
  BY <1>2, PluginsAssumption
<1>4. <<Owner[CHOOSE k \in ks : TRUE]>> \in Seq(Plugins)
  BY <1>3
<1> QED BY <1>1, <1>4 DEF IndiciesOf

LEMMA IndiciesCover ==
    ASSUME NEW ks \in Dirs \cup {{k} : k \in Keys}
    PROVE  Covered(<<ks>>, IndiciesOf(ks))
<1> SUFFICES ASSUME NEW k \in ks PROVE \E n \in 1..Len(IndiciesOf(ks)) : IndiciesOf(ks)[n] = Owner[k]
  BY DEF Covered, Range
<1>1. ks \subseteq Keys /\ Owner[k] \in Plugins
  BY PluginsAssumption DEF Dirs, KeysOf
<1>2. CASE ks = Keys /\ NPlugins > 1
  <2>1. IndiciesOf(ks) = [p \in Plugins |-> p] /\ Len([p \in Plugins |-> p]) = NPlugins
    BY <1>2, PluginsAssumption DEF IndiciesOf, Plugins
  <2> QED BY <1>1, <2>1 DEF Plugins
<1>3. CASE ~(ks = Keys /\ NPlugins > 1)
  <2> DEFINE c == CHOOSE x \in ks : TRUE
  <2>1. c \in ks
    OBVIOUS
  <2> HIDE DEF c
  <2>2. Owner[c] = Owner[k]
    <3>1. CASE ks \in {{x} : x \in Keys} \cup {KeysOf(p) : p \in Plugins}
      BY <2>1, <3>1 DEF KeysOf
    <3>2. CASE ks = Keys
      <4>1. Plugins = {1}
        BY <1>3, <3>2, PluginsAssumption DEF Plugins
      <4> QED BY <4>1, <1>1, <2>1, PluginsAssumption
    <3> QED BY <3>1, <3>2 DEF Dirs
  <2>3. IndiciesOf(ks) = <<Owner[c]>>
    BY <1>3 DEF IndiciesOf, c
  <2> QED BY <2>2, <2>3
<1> QED BY <1>2, <1>3

(* Every command that is accepted names settings and needs their plugins,   *)
(* and Set names settings that can be set.                                  *)
LEMMA CommandsAccept ==
    ASSUME Commands
    PROVE  \E op \in Ops, args \in Seq(SUBSET Keys), value \in Values \cup {Missing},
              indicies \in Seq(Plugins) :
              /\ Accept(op, args, value, indicies)
              /\ Covered(args, indicies)
              /\ op = "set" => (UNION Range(args)) \cap ReadOnly = {}
<1> DEFINE Goal(op, args, value, indicies) ==
              /\ op \in Ops /\ args \in Seq(SUBSET Keys) /\ value \in Values \cup {Missing}
              /\ indicies \in Seq(Plugins)
              /\ Accept(op, args, value, indicies)
              /\ Covered(args, indicies)
              /\ op = "set" => (UNION Range(args)) \cap ReadOnly = {}
<1> SUFFICES \E op, args, value, indicies : Goal(op, args, value, indicies)
  OBVIOUS
<1>0. ASSUME NEW op \in Ops \ {"set"}, NEW args \in Seq(SUBSET Keys), NEW value \in Values \cup {Missing},
             NEW indicies \in Seq(Plugins), Accept(op, args, value, indicies), Covered(args, indicies)
      PROVE  Goal(op, args, value, indicies)
  BY <1>0
<1>1. \A k \in Leaves : k \in Keys /\ {k} \in SUBSET Keys /\ {k} # {} /\ Owner[k] \in Plugins
  BY KeysAssumption, PluginsAssumption
<1>2. \A d \in Dirs : d \in SUBSET Keys /\ d # {}
  <2>1. \A p \in Plugins : KeysOf(p) \in SUBSET Keys /\ KeysOf(p) # {}
    BY OwnerAssumption DEF KeysOf
  <2>2. 1 \in Plugins
    BY PluginsAssumption DEF Plugins
  <2>3. Keys # {}
    BY <2>2, OwnerAssumption
  <2> QED BY <2>1, <2>3 DEF Dirs
<1>3. \A ks \in SUBSET Keys : ks # {} => <<ks>> \in Seq(SUBSET Keys) /\ IndiciesOf(ks) \in Seq(Plugins)
  BY IndiciesType
<1>4. \A k, l \in Leaves : <<{k}, {l}>> \in Seq(SUBSET Keys) /\ <<Owner[k], Owner[l]>> \in Seq(Plugins)
                       /\ Covered(<<{k}, {l}>>, <<Owner[k], Owner[l]>>)
  <2> SUFFICES ASSUME NEW k \in Leaves, NEW l \in Leaves
               PROVE  /\ <<{k}, {l}>> \in Seq(SUBSET Keys) /\ <<Owner[k], Owner[l]>> \in Seq(Plugins)
                      /\ Covered(<<{k}, {l}>>, <<Owner[k], Owner[l]>>)
    OBVIOUS
  <2>1. <<{k}, {l}>> \in Seq(SUBSET Keys) /\ <<Owner[k], Owner[l]>> \in Seq(Plugins)
    BY <1>1
  <2>2. UNION Range(<<{k}, {l}>>) = {k, l}
    <3>1. Range(<<{k}, {l}>>) = {{k}, {l}}
      BY DEF Range
    <3> QED BY <3>1
  <2>3. Covered(<<{k}, {l}>>, <<Owner[k], Owner[l]>>)
    <3> SUFFICES ASSUME NEW x \in {k, l} PROVE \E n \in 1..2 : <<Owner[k], Owner[l]>>[n] = Owner[x]
      BY <2>2 DEF Covered
    <3>1. <<Owner[k], Owner[l]>>[1] = Owner[k] /\ <<Owner[k], Owner[l]>>[2] = Owner[l]
      OBVIOUS
    <3>2. 1 \in 1..2 /\ 2 \in 1..2
      OBVIOUS
    <3> QED BY <3>1, <3>2, Zenon
  <2> QED BY <2>1, <2>3
<1>5. CASE \E k \in Leaves : Get(k)
  <2>1. PICK k \in Leaves : Get(k)
    BY <1>5
  <2>2. Goal("get", <<{k}>>, Missing, IndiciesOf({k}))
    BY <2>1, <1>0, <1>1, <1>3, KeysAssumption, IndiciesCover DEF Get, Ops
  <2> QED BY <2>2
<1>6. CASE \E k \in Leaves, v \in Values : Set(k, v)
  <2>1. PICK k \in Leaves, v \in Values : Set(k, v)
    BY <1>6
  <2>2. Covered(<<{k}>>, IndiciesOf({k}))
    BY <1>1, IndiciesCover
  <2>3. (UNION Range(<<{k}>>)) \cap ReadOnly = {}
    <3>1. UNION Range(<<{k}>>) = {k}
      <4>1. Range(<<{k}>>) = {{k}}
        BY DEF Range
      <4> QED BY <4>1
    <3>2. k \notin ReadOnly
      BY <2>1 DEF Set
    <3> QED BY <3>1, <3>2
  <2>4. Goal("set", <<{k}>>, v, IndiciesOf({k}))
    BY <2>1, <2>2, <2>3, <1>1, <1>3 DEF Set, Ops
  <2> QED BY <2>4
<1>7. CASE \E d \in Dirs : GetAll(d)
  <2>1. PICK d \in Dirs : GetAll(d)
    BY <1>7
  <2>2. Goal("get_all", <<d>>, Missing, IndiciesOf(d))
    BY <2>1, <1>0, <1>2, <1>3, IndiciesCover DEF GetAll, Ops
  <2> QED BY <2>2
<1>8. CASE \E ks \in Dirs \cup {{k} : k \in Leaves \ ReadOnly} : Remove(ks)
  <2>1. PICK ks \in Dirs \cup {{k} : k \in Keys} : ks \in SUBSET Keys /\ ks # {} /\ Remove(ks)
    BY <1>1, <1>2, <1>8
  <2>2. Goal("remove", <<ks>>, Missing, IndiciesOf(ks))
    BY <2>1, <1>0, <1>3, IndiciesCover DEF Remove, Ops
  <2> QED BY <2>2
<1>9. CASE \E k, l \in Leaves :
             /\ k # l
             /\ GetMultiple(k, l) \/ RemoveMultiple(k, l) \/ \E v \in Values : SetMultiple(k, l, v)
  <2>1. PICK k \in Leaves, l \in Leaves :
           GetMultiple(k, l) \/ RemoveMultiple(k, l) \/ \E v \in Values : SetMultiple(k, l, v)
    BY <1>9
  <2>2. CASE GetMultiple(k, l)
    <3>1. Goal("get_multiple", <<{k}, {l}>>, Missing, <<Owner[k], Owner[l]>>)
      BY <2>2, <1>0, <1>4 DEF GetMultiple, Ops
    <3> QED BY <3>1
  <2>3. CASE RemoveMultiple(k, l)
    <3>1. Goal("remove_multiple", <<{k}, {l}>>, Missing, <<Owner[k], Owner[l]>>)
      BY <2>3, <1>0, <1>4 DEF RemoveMultiple, Ops
    <3> QED BY <3>1
  <2>4. CASE \E v \in Values : SetMultiple(k, l, v)
    <3>1. PICK v \in Values : SetMultiple(k, l, v)
      BY <2>4
    <3>2. Goal("set_multiple", <<{k}, {l}>>, v, <<Owner[k], Owner[l]>>)
      BY <3>1, <1>0, <1>4 DEF SetMultiple, Ops
    <3> QED BY <3>2
  <2> QED BY <2>1, <2>2, <2>3, <2>4
<1> QED BY <1>5, <1>6, <1>7, <1>8, <1>9 DEF Commands

-----------------------------------------------------------------------------
(* The inductive invariant: while a plugin is at work a session is open, so *)
(* that its answer does not change the cache of no session; and it is the   *)
(* plugin that the command has come to.                                     *)
WorkInv ==
    /\ state # "IDLE" /\ ~completion => open /\ at \in Plugins
    /\ SyncingIn => /\ cmd.op \in Ops
                    /\ cmd.current \in 1..Len(cmd.indicies)
                    /\ at = cmd.indicies[cmd.current]

Inv == TypeOK /\ WorkInv /\ NothingLeft

LEMMA NoCommandType ==
    NoCommand \in CommandType /\ NoCommand.current \in 1..Len(NoCommand.indicies) + 1
<1>1. /\ <<>> \in Seq(SUBSET Keys) /\ <<>> \in Seq(Plugins)
      /\ "none" \in Ops \cup {"end", "none"} /\ Missing \in Values \cup {Missing}
  OBVIOUS
<1> QED BY <1>1, CommandIsCommand, Zenon DEF NoCommand

LEMMA InitInv == Init => Inv
<1> SUFFICES ASSUME Init PROVE Inv
  OBVIOUS
<1>1. Empty \in Contents /\ NoneSynced \in [Plugins -> BOOLEAN]
  BY DEF Empty, Contents, NoneSynced
<1>2. 0 \in 0..NPlugins + 1
  BY PluginsAssumption
<1>3. cmd \in CommandType /\ cmd.current \in 1..Len(cmd.indicies) + 1
  BY NoCommandType DEF Init
<1>4. TypeOK
  BY <1>1, <1>2, <1>3 DEF Init, TypeOK
<1> QED BY <1>4 DEF Init, Inv, WorkInv, NothingLeft, SyncingIn

(* The loop over the plugins of a command keeps the invariant.              *)
LEMMA SyncPluginsInv ==
    ASSUME Inv, open,
           NEW c \in CommandType, c.op \in Ops, NEW i \in Nat \ {0},
           NEW ca \in Contents, NEW syn \in [Plugins -> BOOLEAN], NEW lost \in SUBSET Plugins,
           SyncPlugins(c, i, ca, syn, lost),
           UNCHANGED <<stored, open, quitting, failed>>
    PROVE  Inv'
<1>1. /\ unavailable' \subseteq Plugins
      /\ synced' = syn
      /\ cmd' \in CommandType /\ cmd'.current \in 1..Len(cmd'.indicies) + 1
      /\ cmd'.op = c.op /\ cmd'.args = c.args /\ cmd'.indicies = c.indicies
      /\ cache' \in Contents
      /\ \/ completion' = TRUE /\ UNCHANGED <<at, state>>
         \/ Synchronising(c)
  BY SyncPluginsType DEF Inv
<1>2. CASE completion' = TRUE /\ UNCHANGED <<at, state>>
  BY <1>1, <1>2 DEF Inv, TypeOK, WorkInv, NothingLeft, SyncingIn
<1>3. CASE Synchronising(c)
  <2>1. at' \in Plugins
    <3>1. c.indicies \in Seq(Plugins)
      BY DEF CommandType
    <3> QED BY <3>1, <1>3, ElementOfSeq DEF Synchronising
  <2>2. at' \in 0..NPlugins + 1
    BY <2>1, PluginsAssumption DEF Plugins
  <2>3. TypeOK'
    BY <1>1, <1>3, <2>2 DEF Inv, TypeOK, Synchronising
  <2>4. WorkInv'
    BY <1>1, <1>3, <2>1 DEF WorkInv, Synchronising, SyncingIn
  <2> QED BY <2>3, <2>4 DEF Inv, NothingLeft
<1> QED BY <1>1, <1>2, <1>3

(* So does the loop over the plugins at the end of a session.               *)
LEMMA SyncOutFromInv ==
    ASSUME Inv, open, NEW i \in Nat \ {0}, NEW c \in CommandType,
           c.current \in 1..Len(c.indicies) + 1,
           NEW lost \in SUBSET Plugins, SyncOutFrom(i, c, lost),
           stored' \in Contents, UNCHANGED quitting
    PROVE  Inv'
<1>1. /\ failed' \subseteq Plugins
      /\ at' \in 0..NPlugins + 1 /\ state' = "SYNC_OUT"
      /\ cmd' \in CommandType /\ cmd'.current \in 1..Len(cmd'.indicies) + 1
      /\ \/ completion' = TRUE /\ SessionOver
         \/ at' \in Plugins /\ UNCHANGED <<cache, synced, completion, open, unavailable>>
  BY SyncOutFromType DEF Inv
<1>2. CASE completion' = TRUE /\ SessionOver
  BY <1>1, <1>2, SessionOverType DEF Inv, TypeOK, WorkInv, NothingLeft, SyncingIn
<1>3. CASE at' \in Plugins /\ UNCHANGED <<cache, synced, completion, open, unavailable>>
  BY <1>1, <1>3 DEF Inv, TypeOK, WorkInv, NothingLeft, SyncingIn
<1> QED BY <1>1, <1>2, <1>3

(* One step per action of Next. *)
LEMMA NextInv == Inv /\ [Next]_vars => Inv'
<1> SUFFICES ASSUME Inv, [Next]_vars PROVE Inv'
  OBVIOUS
<1>1. CASE SyncIn
  BY <1>1 DEF SyncIn, Inv, TypeOK, WorkInv, NothingLeft, SyncingIn
<1>2. CASE SyncOut
  <2>1. /\ <<>> \in Seq(SUBSET Keys) /\ <<>> \in Seq(Plugins)
        /\ "end" \in Ops \cup {"end", "none"} /\ Missing \in Values \cup {Missing}
    OBVIOUS
  <2> DEFINE c == Command("end", <<>>, Missing, <<>>)
  <2>2. c \in CommandType /\ c.current \in 1..Len(c.indicies) + 1
    BY <2>1, CommandIsCommand, Zenon
  <2>3. open /\ SyncOutFrom(1, c, failed) /\ UNCHANGED <<stored, quitting>>
    BY <1>2 DEF SyncOut
  <2>4. 1 \in Nat \ {0} /\ failed \in SUBSET Plugins /\ stored' \in Contents
    BY <2>3 DEF Inv, TypeOK
  <2> HIDE DEF c
  <2> QED BY <2>2, <2>3, <2>4, SyncOutFromInv
<1>3. CASE Abort
  BY <1>3, SessionOverType DEF Abort, Inv, TypeOK, WorkInv, NothingLeft, SyncingIn
<1>4. CASE Complete
  BY <1>4, NoCommandType DEF Complete, Inv, TypeOK, WorkInv, NothingLeft, SyncingIn
<1>5. CASE Cancel
  BY <1>5 DEF Cancel, Inv, TypeOK, WorkInv, NothingLeft, SyncingIn
<1>6. CASE Restart
  <2>1. cache' \in Contents /\ synced' \in [Plugins -> BOOLEAN] /\ at' \in 0..NPlugins + 1
    BY <1>6, PluginsAssumption DEF Restart, Contents, Empty, NoneSynced
  <2> QED BY <1>6, <2>1, NoCommandType DEF Restart, Inv, TypeOK, WorkInv, NothingLeft, SyncingIn
<1>7. CASE Commands
  <2>1. PICK op \in Ops, args \in Seq(SUBSET Keys), value \in Values \cup {Missing},
             indicies \in Seq(Plugins) : Accept(op, args, value, indicies)
    BY <1>7, CommandsAccept
  <2> DEFINE c == Command(op, args, value, indicies)
  <2>2. /\ open /\ SyncPlugins(c, 1, cache, synced, unavailable)
        /\ UNCHANGED <<stored, open, quitting, failed>>
    BY <2>1 DEF Accept
  <2>3. c \in CommandType /\ c.op \in Ops
    <3>1. /\ op \in Ops \cup {"end", "none"} /\ args \in Seq(SUBSET Keys)
          /\ value \in Values \cup {Missing} /\ indicies \in Seq(Plugins)
      OBVIOUS
    <3>2. Command(op, args, value, indicies) \in CommandType
      BY <3>1, CommandIsCommand
    <3> QED BY <3>2 DEF Command
  <2>4. /\ 1 \in Nat \ {0} /\ cache \in Contents /\ synced \in [Plugins -> BOOLEAN]
        /\ unavailable \in SUBSET Plugins
    BY DEF Inv, TypeOK
  <2> HIDE DEF c
  <2> QED BY <2>2, <2>3, <2>4, SyncPluginsInv
<1>8. ASSUME SyncingIn
      PROVE  /\ open /\ at \in Plugins /\ cmd \in CommandType /\ cmd.op \in Ops
             /\ cmd.current + 1 \in Nat \ {0}
             /\ cache \in Contents /\ synced \in [Plugins -> BOOLEAN]
             /\ unavailable \in SUBSET Plugins
  BY <1>8 DEF Inv, WorkInv, TypeOK, SyncingIn, CommandType
<1>9. CASE PluginSynced
  <2>1. /\ SyncPlugins(cmd, cmd.current + 1, WithSettings(at), [synced EXCEPT ![at] = TRUE],
                       unavailable \ {at})
        /\ SyncingIn /\ UNCHANGED <<stored, open, quitting, failed>>
    BY <1>9 DEF PluginSynced
  <2>2. WithSettings(at) \in Contents
    BY WithSettingsType DEF Inv
  <2>3. [synced EXCEPT ![at] = TRUE] \in [Plugins -> BOOLEAN] /\ unavailable \ {at} \in SUBSET Plugins
    BY <1>8, <2>1
  <2> QED BY <1>8, <2>1, <2>2, <2>3, SyncPluginsInv
<1>10. CASE PluginNotSynced
  <2>1. /\ SyncPlugins(cmd, cmd.current + 1, cache, synced, unavailable \cup {at})
        /\ SyncingIn /\ UNCHANGED <<stored, open, quitting, failed>>
    BY <1>10 DEF PluginNotSynced
  <2>2. unavailable \cup {at} \in SUBSET Plugins
    BY <1>8, <2>1
  <2> QED BY <1>8, <2>1, <2>2, SyncPluginsInv
<1>11. CASE PluginSyncCancelled
  <2>1. cmd' \in CommandType /\ cmd'.current \in 1..Len(cmd'.indicies) + 1
    BY <1>11 DEF PluginSyncCancelled, Inv, TypeOK, CommandType
  <2> QED BY <1>11, <2>1 DEF PluginSyncCancelled, Inv, TypeOK, WorkInv, NothingLeft, SyncingIn
<1>12. ASSUME SyncingOut
       PROVE  /\ open /\ at \in Plugins /\ at + 1 \in Nat \ {0}
              /\ cmd \in CommandType /\ cmd.current \in 1..Len(cmd.indicies) + 1
              /\ failed \in SUBSET Plugins /\ failed \cup {at} \in SUBSET Plugins
  BY <1>12 DEF Inv, WorkInv, TypeOK, SyncingOut, Plugins
<1>13. CASE PluginStored
  <2>1. SyncingOut /\ SyncOutFrom(at + 1, cmd, failed) /\ UNCHANGED quitting
    BY <1>13 DEF PluginStored
  <2>2. stored' \in Contents
    BY <1>13, StoreType DEF PluginStored, Inv
  <2> QED BY <1>12, <2>1, <2>2, SyncOutFromInv
<1>14. CASE PluginNotStored
  <2>1. SyncingOut /\ SyncOutFrom(at + 1, cmd, failed \cup {at}) /\ UNCHANGED quitting
    BY <1>14 DEF PluginNotStored
  <2>2. stored' \in Contents
    BY <1>14, StoreType DEF PluginNotStored, Inv
  <2> QED BY <1>12, <2>1, <2>2, SyncOutFromInv
<1>15. CASE PluginStoreCancelled
  <2>1. stored' \in Contents
    BY <1>15, StoreType DEF PluginStoreCancelled, Inv
  <2>2. cmd' \in CommandType /\ cmd'.current \in 1..Len(cmd'.indicies) + 1
    BY <1>15 DEF PluginStoreCancelled, Inv, TypeOK, CommandType
  <2> QED BY <1>15, <2>1, <2>2, SessionOverType
          DEF PluginStoreCancelled, Inv, TypeOK, WorkInv, NothingLeft, SyncingIn
<1>16. CASE UNCHANGED vars
  BY <1>16 DEF vars, Inv, TypeOK, WorkInv, NothingLeft, SyncingIn
<1> QED BY <1>1, <1>2, <1>3, <1>4, <1>5, <1>6, <1>7, <1>9, <1>10, <1>11, <1>13, <1>14, <1>15, <1>16
        DEF Next, PluginAnswers

LEMMA AlwaysInv == Spec => []Inv
BY InitInv, NextInv, PTL DEF Spec

(* The variables of the plugin manager keep their types, and a command      *)
(* never has come further than past its last plugin.                        *)
THEOREM ManagerTypeCorrect == Spec => []TypeOK
<1>1. Inv => TypeOK
  BY DEF Inv
<1> QED BY <1>1, AlwaysInv, PTL

(* plugin_manager_abort and the last step of plugin_manager_sync_out leave  *)
(* no setting and no synchronised plugin to the next session, and nothing   *)
(* is cached between sessions.                                              *)
THEOREM NothingIsLeft == Spec => []NothingLeft
<1>1. Inv => NothingLeft
  BY DEF Inv
<1> QED BY <1>1, AlwaysInv, PTL

-----------------------------------------------------------------------------
(* Why what is cached belongs to plugins that are synchronised.  Only Set   *)
(* does not look; but the plugins it needs are synchronised when it is      *)
(* carried out, unless one of them fails.                                   *)

IsSynced(ca, syn) == \A k \in Keys : ca[k] # Missing => syn[Owner[k]]

(* A Set needs the plugins of what it sets, and those before the i-th are   *)
(* synchronised.                                                            *)
SetReady(c, i, syn) ==
    c.op = "set" => /\ Covered(c.args, c.indicies)
                    /\ \A n \in 1..Len(c.indicies) : n < i => syn[c.indicies[n]]

SyncedInv == IsSynced(cache, synced) /\ (SyncingIn => SetReady(cmd, cmd.current, synced))

LEMMA SyncFinishedSynced ==
    ASSUME NEW c \in CommandType, c.op \in Ops, NEW ca \in Contents, NEW syn \in [Plugins -> BOOLEAN],
           IsSynced(ca, syn), c.op = "set" => \A k \in Named(c) : syn[Owner[k]]
    PROVE  IsSynced(SyncFinished(c, ca, syn).cache, syn)
<1>1. \A e, vs, r, ch : Outcome(e, vs, r, ch).cache = ch
  BY DEF Outcome
<1>2. \A ks, v : v = Missing \/ (\A k \in ks : syn[Owner[k]]) => IsSynced(Assign(ca, ks, v), syn)
  BY DEF IsSynced, Assign
<1>3. IsSynced(GetCb(c, ca).cache, syn)
  BY <1>1 DEF GetCb
<1>4. IsSynced(GetAllCb(c, ca).cache, syn)
  BY <1>3 DEF GetAllCb
<1>5. IsSynced(GetMultipleCb(c, ca).cache, syn)
  BY <1>1 DEF GetMultipleCb
<1>6. c.op = "set" => IsSynced(SetCb(c, ca).cache, syn)
  BY <1>1, <1>2 DEF SetCb
<1>7. IsSynced(SetMultipleCb(c, ca, syn).cache, syn)
  BY <1>1, <1>2 DEF SetMultipleCb
<1>8. IsSynced(RemoveCb(c, ca).cache, syn)
  BY <1>1, <1>2 DEF RemoveCb
<1>9. IsSynced(RemoveMultipleCb(c, ca).cache, syn)
  BY <1>1, <1>2 DEF RemoveMultipleCb
<1> QED BY <1>3, <1>4, <1>5, <1>6, <1>7, <1>8, <1>9 DEF SyncFinished, Ops

(* The loop over the plugins of a command goes past a plugin that is not    *)
(* synchronised only if that plugin fails, which none does during a Set.    *)
LEMMA SyncPluginsSynced ==
    ASSUME "set" \notin FailsIn,
           NEW c \in CommandType, c.op \in Ops, NEW i \in Nat \ {0},
           NEW ca \in Contents, NEW syn \in [Plugins -> BOOLEAN], NEW lost,
           SyncPlugins(c, i, ca, syn, lost), IsSynced(ca, syn), SetReady(c, i, syn)
    PROVE  IsSynced(cache', synced') /\ (completion' = TRUE \/ SetReady(cmd', cmd'.current, synced'))
<1> DEFINE Refusing(j) == {p \in {c.indicies[n] : n \in i..j - 1} : ~syn[p]}
<1>1. PICK j \in i..Len(c.indicies) + 1 :
         /\ Refusing(j) = {} \/ c.op \in FailsIn
         /\ synced' = syn
         /\ IF j > Len(c.indicies)
            THEN Run(c, ca, syn)
            ELSE cmd' = [c EXCEPT !.current = j] /\ cache' = ca
  BY DEF SyncPlugins
<1>2. Len(c.indicies) \in Nat /\ j \in Nat
  BY <1>1, LenProperties DEF CommandType
<1>3. c.op = "set" => \A n \in 1..Len(c.indicies) : n < j => syn[c.indicies[n]]
  <2> SUFFICES ASSUME c.op = "set", NEW n \in 1..Len(c.indicies), n < j PROVE syn[c.indicies[n]]
    OBVIOUS
  <2>1. CASE n < i
    BY <2>1 DEF SetReady
  <2>2. CASE ~(n < i)
    <3>1. n \in i..j - 1
      BY <2>2, <1>2
    <3>2. Refusing(j) = {}
      BY <1>1
    <3> QED BY <3>1, <3>2
  <2> QED BY <2>1, <2>2
<1>4. CASE j > Len(c.indicies)
  <2>1. c.op = "set" => \A k \in Named(c) : syn[Owner[k]]
    <3> SUFFICES ASSUME c.op = "set", NEW k \in Named(c) PROVE syn[Owner[k]]
      OBVIOUS
    <3>1. PICK n \in 1..Len(c.indicies) : c.indicies[n] = Owner[k]
      BY DEF SetReady, Covered, Named
    <3>2. n < j
      BY <1>2, <1>4
    <3> QED BY <3>1, <3>2, <1>3
  <2>2. cache' = SyncFinished(c, ca, syn).cache /\ completion' = TRUE
    BY <1>1, <1>4 DEF Run
  <2> QED BY <2>1, <2>2, <1>1, SyncFinishedSynced
<1>5. CASE ~(j > Len(c.indicies))
  <2>1. cmd' = [c EXCEPT !.current = j] /\ cache' = ca /\ synced' = syn
    BY <1>1, <1>5
  <2>2. cmd'.op = c.op /\ cmd'.args = c.args /\ cmd'.indicies = c.indicies /\ cmd'.current = j
    BY <2>1 DEF CommandType
  <2> QED BY <2>1, <2>2, <1>3 DEF SetReady
<1> QED BY <1>4, <1>5

(* While a plugin is at work, the command has come to it.                   *)
LEMMA AtWork ==
    ASSUME Inv, SyncedInv, SyncingIn
    PROVE  /\ open /\ at \in Plugins /\ cmd \in CommandType /\ cmd.op \in Ops
           /\ cmd.current + 1 \in Nat \ {0} /\ cmd.current \in 1..Len(cmd.indicies)
           /\ cmd.indicies \in Seq(Plugins) /\ at = cmd.indicies[cmd.current]
           /\ cache \in Contents /\ synced \in [Plugins -> BOOLEAN]
           /\ unavailable \in SUBSET Plugins
           /\ IsSynced(cache, synced) /\ SetReady(cmd, cmd.current, synced)
BY DEF Inv, WorkInv, TypeOK, SyncingIn, CommandType, SyncedInv

(* Once it has answered, its settings are cached and it is synchronised.    *)
LEMMA AnswerSynced ==
    ASSUME Inv, SyncedInv, SyncingIn
    PROVE  LET syn == [synced EXCEPT ![at] = TRUE]
           IN  /\ WithSettings(at) \in Contents /\ syn \in [Plugins -> BOOLEAN]
               /\ syn[at] /\ \A p \in Plugins : p # at => syn[p] = synced[p]
               /\ IsSynced(WithSettings(at), syn)
               /\ SetReady(cmd, cmd.current + 1, syn)
<1> DEFINE syn == [synced EXCEPT ![at] = TRUE]
<1>1. /\ at \in Plugins /\ synced \in [Plugins -> BOOLEAN] /\ IsSynced(cache, synced)
      /\ cmd.current \in 1..Len(cmd.indicies) /\ cmd.indicies \in Seq(Plugins)
      /\ at = cmd.indicies[cmd.current] /\ SetReady(cmd, cmd.current, synced)
  BY AtWork
<1>2. WithSettings(at) \in Contents
  BY WithSettingsType DEF Inv
<1>3. syn \in [Plugins -> BOOLEAN] /\ syn[at] /\ \A p \in Plugins : p # at => syn[p] = synced[p]
  BY <1>1
<1>4. IsSynced(WithSettings(at), syn)
  BY <1>1, <1>3, PluginsAssumption DEF IsSynced, WithSettings
<1>5. SetReady(cmd, cmd.current + 1, syn)
  <2> SUFFICES ASSUME cmd.op = "set", NEW n \in 1..Len(cmd.indicies), n < cmd.current + 1
               PROVE  syn[cmd.indicies[n]]
    BY <1>1 DEF SetReady
  <2>1. CASE n = cmd.current
    BY <2>1, <1>1, <1>3
  <2>2. CASE n < cmd.current
    <3>1. synced[cmd.indicies[n]]
      BY <2>2, <1>1 DEF SetReady
    <3>2. cmd.indicies[n] \in Plugins
      BY <1>1, ElementOfSeq
    <3> QED BY <3>1, <3>2, <1>1
  <2> QED BY <2>1, <2>2, <1>1
<1> QED BY <1>2, <1>3, <1>4, <1>5

(* One step per action of Next. *)
LEMMA NextSynced ==
    ASSUME "set" \notin FailsIn, Inv, SyncedInv, [Next]_vars
    PROVE  SyncedInv'
<1>1. TypeOK
  BY DEF Inv
<1>2. CASE SyncIn
  BY <1>2 DEF SyncIn, SyncedInv, SyncingIn
<1>3. ASSUME SessionOver PROVE IsSynced(cache', synced')
  BY <1>3 DEF SessionOver, ClearCache, Empty, IsSynced
<1>4. ASSUME NEW i, NEW c, NEW lost, SyncOutFrom(i, c, lost) PROVE SyncedInv'
  <2>1. state' = "SYNC_OUT" /\ (SessionOver \/ UNCHANGED <<cache, synced>>)
    BY <1>4 DEF SyncOutFrom
  <2> QED BY <2>1, <1>3 DEF SyncedInv, SyncingIn
<1>5. CASE SyncOut
  BY <1>4, <1>5 DEF SyncOut
<1>6. CASE Abort
  BY <1>3, <1>6 DEF Abort, SyncedInv, SyncingIn
<1>7. CASE Complete
  BY <1>7 DEF Complete, SyncedInv, SyncingIn
<1>8. CASE Cancel
  BY <1>8 DEF Cancel, SyncedInv, SyncingIn
<1>9. CASE Restart
  BY <1>9 DEF Restart, SyncedInv, SyncingIn, IsSynced, Empty
<1>10. CASE Commands
  <2>1. PICK op \in Ops, args \in Seq(SUBSET Keys), value \in Values \cup {Missing},
             indicies \in Seq(Plugins) :
               Accept(op, args, value, indicies) /\ Covered(args, indicies)
    BY <1>10, CommandsAccept
  <2> DEFINE c == Command(op, args, value, indicies)
  <2>2. SyncPlugins(c, 1, cache, synced, unavailable)
    BY <2>1 DEF Accept
  <2>3. c \in CommandType /\ c.op = op /\ c.args = args /\ c.indicies = indicies
    <3>1. /\ op \in Ops \cup {"end", "none"} /\ args \in Seq(SUBSET Keys)
          /\ value \in Values \cup {Missing} /\ indicies \in Seq(Plugins)
      OBVIOUS
    <3>2. Command(op, args, value, indicies) \in CommandType
      BY <3>1, CommandIsCommand
    <3> QED BY <3>2 DEF Command
  <2>4. SetReady(c, 1, synced)
    <3>1. \A n \in 1..Len(indicies) : ~(n < 1)
      OBVIOUS
    <3> QED BY <2>1, <2>3, <3>1 DEF SetReady
  <2>5. 1 \in Nat \ {0} /\ cache \in Contents /\ synced \in [Plugins -> BOOLEAN]
    BY <1>1 DEF TypeOK
  <2>6. IsSynced(cache, synced)
    BY DEF SyncedInv
  <2>7. c.op \in Ops
    BY <2>3
  <2> HIDE DEF c
  <2>8. IsSynced(cache', synced') /\ (completion' = TRUE \/ SetReady(cmd', cmd'.current, synced'))
    BY <2>2, <2>3, <2>4, <2>5, <2>6, <2>7, SyncPluginsSynced
  <2> QED BY <2>8 DEF SyncedInv, SyncingIn
<1>11. CASE PluginSynced
  <2> DEFINE syn == [synced EXCEPT ![at] = TRUE]
  <2>1. SyncingIn /\ SyncPlugins(cmd, cmd.current + 1, WithSettings(at), syn, unavailable \ {at})
    BY <1>11 DEF PluginSynced
  <2>2. /\ WithSettings(at) \in Contents /\ syn \in [Plugins -> BOOLEAN]
        /\ IsSynced(WithSettings(at), syn) /\ SetReady(cmd, cmd.current + 1, syn)
    BY <2>1, AnswerSynced
  <2> HIDE DEF syn
  <2>3. IsSynced(cache', synced') /\ (completion' = TRUE \/ SetReady(cmd', cmd'.current, synced'))
    BY <2>1, <2>2, AtWork, SyncPluginsSynced
  <2> QED BY <2>3 DEF SyncedInv, SyncingIn
<1>12. CASE PluginNotSynced
  <2>1. /\ SyncingIn /\ cmd.op \in FailsIn
        /\ SyncPlugins(cmd, cmd.current + 1, cache, synced, unavailable \cup {at})
    BY <1>12 DEF PluginNotSynced
  <2>2. SetReady(cmd, cmd.current + 1, synced)
    BY <2>1 DEF SetReady
  <2>3. IsSynced(cache', synced') /\ (completion' = TRUE \/ SetReady(cmd', cmd'.current, synced'))
    BY <2>1, <2>2, AtWork, SyncPluginsSynced
  <2> QED BY <2>3 DEF SyncedInv, SyncingIn
<1>13. CASE PluginSyncCancelled
  BY <1>13 DEF PluginSyncCancelled, SyncedInv, SyncingIn
<1>14. CASE PluginStored
  BY <1>4, <1>14 DEF PluginStored
<1>15. CASE PluginNotStored
  BY <1>4, <1>15 DEF PluginNotStored
<1>16. CASE PluginStoreCancelled
  BY <1>3, <1>16 DEF PluginStoreCancelled, SyncedInv, SyncingIn
<1>17. CASE UNCHANGED vars
  BY <1>17 DEF vars, SyncedInv, SyncingIn
<1> QED BY <1>2, <1>5, <1>6, <1>7, <1>8, <1>9, <1>10, <1>11, <1>12, <1>13, <1>14, <1>15, <1>16, <1>17
        DEF Next, PluginAnswers

(* If no plugin fails to synchronise for a Set, what is cached belongs to   *)
(* plugins that are synchronised: prv_plugin_sync_in_cb overwrites nothing  *)
(* that a client has set, and prv_sync_out_next_plugin passes on everything.*)
THEOREM SettingsAreSynced ==
    ASSUME "set" \notin FailsIn
    PROVE  Spec => []CacheIsSynced
<1>1. Init => SyncedInv
  BY DEF Init, SyncedInv, SyncingIn, IsSynced, Empty
<1>2. Inv /\ SyncedInv /\ [Next]_vars => SyncedInv'
  BY NextSynced
<1>3. SyncedInv => CacheIsSynced
  BY DEF SyncedInv, IsSynced, CacheIsSynced
<1> QED BY <1>1, <1>2, <1>3, AlwaysInv, PTL DEF Spec

-----------------------------------------------------------------------------
(* PluginManager.tla implements Settings.tla: plugins that are synchronised *)
(* one by one when a command needs them, and settings that are given back   *)
(* one plugin after the other, look to a client like a draft that is stored *)
(* at End or not at all.                                                    *)
(*                                                                          *)
(* It takes two things of the plugins and of the moment provman is told to  *)
(* quit, and both are known to be needed: no plugin fails to synchronise    *)
(* for a Set, which would write to the cache of a plugin that is never      *)
(* given it, and no GetMultiple is cancelled, which would be answered as if *)
(* nothing had been there to read.                                          *)

(* What the client sees of a cache, of a command and of its result. *)

Draft(ca, syn, st) == [k \in Keys |-> IF syn[Owner[k]] THEN ca[k] ELSE st[k]]

CallOf(c) == [op |-> c.op, args |-> c.args, value |-> c.value]

ResultOf(c) == [err |-> c.err, values |-> c.values, refused |-> c.refused]

NoResult == [err |-> "pending", values |-> Nothing, refused |-> {}]

EndCommand == Command("end", <<>>, Missing, <<>>)

(* A plugin that a command has gone past is synchronised or is known not to *)
(* be, and the command names no settings of other plugins.                  *)
Accounted(c, i, syn, lost) ==
    /\ Covered(c.args, c.indicies)
    /\ \A n \in 1..Len(c.indicies) : n < i => syn[c.indicies[n]] \/ c.indicies[n] \in lost
    /\ c.op = "set" => Named(c) \cap ReadOnly = {}

(* The strengthening that the refinement needs. *)
ResultInv == IF completion THEN cmd.err # "pending" ELSE ResultOf(cmd) = NoResult

IdleInv == state = "IDLE" /\ ~completion => CallOf(cmd) = CallOf(NoCommand)

LostInv == \A p \in unavailable : ~synced[p]

SyncingInInv ==
    SyncingIn => /\ ~synced[at]
                 /\ Accounted(cmd, cmd.current, synced, unavailable)
                 /\ quitting => cmd.op \in CancelIn

(* At the end, what the plugins before the one at work hold is the draft. *)
SyncingOutInv ==
    SyncingOut => /\ CallOf(cmd) = CallOf(EndCommand)
                  /\ synced[at]
                  /\ \A k \in Keys : Owner[k] < at /\ Owner[k] \notin failed =>
                        stored[k] = Draft(cache, synced, stored)[k]

PromiseInv == ResultInv /\ IdleInv /\ LostInv /\ SyncingInInv /\ SyncingOutInv

-----------------------------------------------------------------------------
(* Carrying out a command.                                                  *)

(* What is written to the cache is written to the draft. *)
LEMMA AssignIsDrafted ==
    ASSUME NEW ca \in Contents, NEW syn \in [Plugins -> BOOLEAN], NEW st, NEW v,
           NEW ks \in SUBSET Keys
    PROVE  Draft(Assign(ca, ks, v), syn, st) =
              [k \in Keys |-> IF k \in ks /\ syn[Owner[k]] THEN v ELSE Draft(ca, syn, st)[k]]
BY DEF Assign, Draft, Contents

(* The callbacks of the commands do to the draft, and answer, what          *)
(* Settings.tla says.                                                       *)
LEMMA RunImplements ==
    ASSUME NEW c \in CommandType, c.op \in Ops,
           NEW ca \in Contents, NEW syn \in [Plugins -> BOOLEAN], IsSynced(ca, syn),
           \A k \in Named(c) : syn[Owner[k]] <=> Owner[k] \notin unavailable',
           c.op = "set" => Named(c) \cap ReadOnly = {} /\ \A k \in Named(c) : syn[Owner[k]],
           Run(c, ca, syn), synced' = syn, UNCHANGED stored,
           Draft(ca, syn, stored) = Draft(cache, synced, stored)
    PROVE  \/ Promise!Read(CallOf(c), unavailable')
           \/ Promise!Write(CallOf(c), unavailable')
           \/ Promise!Erase(CallOf(c), unavailable')
<1> DEFINE U == unavailable'
           D == Draft(ca, syn, stored)
           out == SyncFinished(c, ca, syn)
           ks == Named(c)
           seen == {k \in ks : Owner[k] \notin U /\ D[k] # Missing}
<1>1. /\ ks \in SUBSET Keys /\ ks = Promise!Named(CallOf(c))
      /\ CallOf(c).op = c.op /\ CallOf(c).value = c.value
  BY NamedType DEF CallOf, Named, Promise!Named, Range, Promise!Range
<1>2. /\ ks \cap Promise!Visible(U) = seen
      /\ Present(ca, ks) = seen /\ Valued(ca, ks) = [k \in seen |-> D[k]]
  <2>1. Promise!Visible(U) = {k \in Keys : Owner[k] \notin U /\ D[k] # Missing}
    BY DEF Promise!Visible, Draft
  <2> HIDE DEF D
  <2>2. ks \cap Promise!Visible(U) = seen
    BY <1>1, <2>1
  <2>3. ks \in SUBSET Keys /\ \A k \in ks : syn[Owner[k]] <=> Owner[k] \notin U
    BY <1>1
  <2> HIDE DEF ks, U
  <2>4. ASSUME NEW k \in ks
        PROVE  /\ ca[k] # Missing <=> Owner[k] \notin U /\ D[k] # Missing
               /\ ca[k] # Missing => D[k] = ca[k]
    BY <2>3, <2>4 DEF IsSynced, Draft, D
  <2>5. Present(ca, ks) = seen
    BY <2>4 DEF Present
  <2>6. \A k \in seen : D[k] = ca[k]
    BY <2>4
  <2>7. Valued(ca, ks) = [k \in seen |-> D[k]]
    BY <2>5, <2>6 DEF Valued
  <2> QED BY <2>2, <2>5, <2>7
<1>3. /\ cmd'.err = out.err /\ cmd'.values = out.values /\ cmd'.refused = out.refused
      /\ cache' = out.cache
  BY DEF Run, CommandType
<1>4. ASSUME NEW e, NEW vs, NEW r, NEW ch, out = Outcome(e, vs, r, ch)
      PROVE  /\ ResultOf(cmd)' = Promise!Result(e, vs, r)
             /\ Draft(cache, synced, stored)' = Draft(ch, syn, stored)
  BY <1>3, <1>4 DEF Outcome, ResultOf, Promise!Result, Draft
<1>5. Exists(ca, ks) <=> Promise!Exists(ks, U)
  BY <1>2 DEF Exists, Promise!Exists
<1>6. Promise!Drafted(seen) = [k \in seen |-> D[k]]
  BY <1>1 DEF Promise!Drafted, Draft
<1>7. CallOf(c).op = c.op /\ CallOf(c).value = c.value
  BY DEF CallOf
<1>8. CASE c.op \in {"get", "get_all", "get_multiple"}
  <2> DEFINE found == c.op = "get_multiple" \/ Exists(ca, ks)
  <2>1. out = IF found THEN Outcome("none", Valued(ca, ks), {}, ca) ELSE Outcome("not_found", Nothing, {}, ca)
    BY <1>8 DEF SyncFinished, GetCb, GetAllCb, GetMultipleCb
  <2>2. ResultOf(cmd)' = IF found THEN Promise!Result("none", Promise!Drafted(seen), {})
                         ELSE Promise!Error("not_found")
    BY <2>1, <1>2, <1>4, <1>6 DEF Promise!Error, Nothing, Promise!Nothing
  <2>3. Draft(cache, synced, stored)' = Draft(cache, synced, stored)
    BY <2>1, <1>4
  <2>4. Promise!Read(CallOf(c), U)
    BY <1>1, <1>2, <1>5, <1>7, <1>8, <2>2, <2>3 DEF Promise!Read, ResultOf, Draft
  <2> QED BY <2>4
<1>9. ASSUME NEW v, NEW some \in SUBSET Keys, NEW e, NEW vs, NEW r,
             out = Outcome(e, vs, r, Assign(ca, some, v))
      PROVE  Draft(cache, synced, stored)' = [k \in Keys |-> IF k \in some /\ syn[Owner[k]] THEN v ELSE D[k]]
  BY <1>4, <1>9, AssignIsDrafted
<1>10. CASE c.op \in {"set", "set_multiple"}
  <2> DEFINE some == {k \in ks : Owner[k] \notin U /\ k \notin ReadOnly}
  <2>1. out = Outcome("none", Nothing, IF c.op = "set" THEN {} ELSE ks \ some, Assign(ca, some, c.value))
    <3>1. c.op = "set" => some = ks
      BY <1>1
    <3>2. some = {k \in ks \ ReadOnly : syn[Owner[k]]}
      BY <1>1
    <3> QED BY <3>1, <3>2, <1>10 DEF SyncFinished, SetCb, SetMultipleCb
  <2>2. some \in SUBSET Keys /\ \A k \in some : syn[Owner[k]]
    BY <1>1
  <2>3. Draft(cache, synced, stored)' = [k \in Keys |-> IF k \in some THEN c.value ELSE D[k]]
    <3> HIDE DEF some, D, out, seen
    <3>1. Draft(cache, synced, stored)' = [k \in Keys |-> IF k \in some /\ syn[Owner[k]] THEN c.value ELSE D[k]]
      BY <1>9, <2>1, <2>2
    <3> QED BY <2>2, <3>1
  <2>4. ResultOf(cmd)' = Promise!Result("none", Promise!Nothing, IF c.op = "set" THEN {} ELSE ks \ some)
    BY <1>4, <2>1 DEF Nothing, Promise!Nothing
  <2>5. c.op = "set" => some = ks
    BY <1>1
  <2>6. Promise!Write(CallOf(c), U)
    <3>1. D = Draft(cache, synced, stored)
      OBVIOUS
    <3> HIDE DEF D, out, seen
    <3> QED BY <1>1, <1>7, <1>10, <2>3, <2>4, <2>5, <3>1 DEF Promise!Write, Promise!Ok, ResultOf, Draft
  <2> QED BY <2>6
<1>11. CASE c.op \in {"remove", "remove_multiple"}
  <2> DEFINE some == {k \in seen : c.op = "remove" \/ k \notin ReadOnly}
             all == IF c.op = "remove" THEN ks ELSE some
             found == c.op = "remove_multiple" \/ Exists(ca, ks)
  <2>1. out = IF found
              THEN Outcome("none", Nothing, IF c.op = "remove" THEN {} ELSE ks \ some, Assign(ca, all, Missing))
              ELSE Outcome("not_found", Nothing, {}, ca)
    <3>1. c.op = "remove_multiple" => some = Present(ca, ks \ ReadOnly)
      BY <1>2 DEF Present
    <3> QED BY <3>1, <1>11 DEF SyncFinished, RemoveCb, RemoveMultipleCb
  <2>2. Draft(cache, synced, stored)' = [k \in Keys |-> IF k \in some THEN Missing ELSE D[k]]
    <3>1. D = [k \in Keys |-> D[k]]
      BY DEF Draft
    <3>2. CASE found
      <4>1. all \in SUBSET Keys
        BY <1>1
      <4>2. ASSUME NEW k \in Keys
            PROVE  (IF k \in all /\ syn[Owner[k]] THEN Missing ELSE D[k])
                      = IF k \in some THEN Missing ELSE D[k]
        BY <4>2
      <4> HIDE DEF some, all, D, out, seen
      <4>3. Draft(cache, synced, stored)' = [k \in Keys |-> IF k \in all /\ syn[Owner[k]] THEN Missing ELSE D[k]]
        BY <1>9, <2>1, <3>2, <4>1
      <4> QED BY <4>2, <4>3
    <3>3. CASE ~found
      <4>1. some = {}
        BY <1>2, <3>3, <1>11 DEF Exists
      <4>2. Draft(cache, synced, stored)' = D
        BY <1>4, <2>1, <3>3
      <4> HIDE DEF some, D
      <4> QED BY <3>1, <4>1, <4>2
    <3> QED BY <3>2, <3>3
  <2>3. ResultOf(cmd)' = IF found THEN Promise!Result("none", Promise!Nothing, IF c.op = "remove" THEN {} ELSE ks \ some)
                         ELSE Promise!Error("not_found")
    BY <1>4, <2>1 DEF Nothing, Promise!Nothing, Promise!Error
  <2>4. {k \in Promise!Named(CallOf(c)) :
             k \in Promise!Visible(U) /\ (CallOf(c).op = "remove" \/ k \notin ReadOnly)} = some
    BY <1>1, <1>2
  <2>5. Promise!Erase(CallOf(c), U)
    <3>1. D = Draft(cache, synced, stored)
      OBVIOUS
    <3>2. ResultOf(cmd)' = IF c.op = "remove"
                           THEN IF Promise!Exists(ks, U) THEN Promise!Ok ELSE Promise!Error("not_found")
                           ELSE Promise!Result("none", Promise!Nothing, ks \ some)
      BY <1>5, <1>11, <2>3 DEF Promise!Ok
    <3> HIDE DEF D, out, seen, some, found
    <3> QED BY <1>1, <1>7, <1>11, <2>2, <2>4, <3>1, <3>2 DEF Promise!Erase, ResultOf, Draft
  <2> QED BY <2>5
<1> QED BY <1>8, <1>10, <1>11 DEF Ops

-----------------------------------------------------------------------------
(* What a command has to have, and the plugins it has gone past, when       *)
(* prv_sync_plugins goes on with its i-th plugin.                           *)
Ready(c, i, ca, syn, lost) ==
    /\ c \in CommandType /\ c.op \in Ops /\ ResultOf(c) = NoResult
    /\ ca \in Contents /\ syn \in [Plugins -> BOOLEAN] /\ lost \in SUBSET Plugins
    /\ IsSynced(ca, syn) /\ SetReady(c, i, syn) /\ Accounted(c, i, syn, lost)
    /\ \A p \in lost : ~syn[p]
    /\ quitting => c.op \in CancelIn

(* The loop goes past synchronised plugins and past plugins that refuse.    *)
LEMMA SyncPluginsGoesOn ==
    ASSUME "set" \notin FailsIn, NEW c, NEW i \in Nat \ {0}, NEW ca, NEW syn, NEW lost,
           Ready(c, i, ca, syn, lost), SyncPlugins(c, i, ca, syn, lost)
    PROVE  /\ synced' = syn /\ unavailable' \in SUBSET Plugins
           /\ \A p \in unavailable' : ~syn[p]
           /\ \/ Run(c, ca, syn) /\ UNCHANGED <<at, state>>
                 /\ Ready(c, Len(c.indicies) + 1, ca, syn, unavailable')
              \/ \E j \in 1..Len(c.indicies) :
                    /\ ~syn[c.indicies[j]]
                    /\ at' = c.indicies[j] /\ state' = "SYNC_IN"
                    /\ cmd' = [c EXCEPT !.current = j]
                    /\ cache' = ca
                    /\ UNCHANGED completion
                    /\ Ready(c, j, ca, syn, unavailable')
<1> DEFINE Refusing(j) == {p \in {c.indicies[n] : n \in i..j - 1} : ~syn[p]}
<1>1. PICK j \in i..Len(c.indicies) + 1 :
         /\ Refusing(j) = {} \/ c.op \in FailsIn
         /\ unavailable' = lost \cup Refusing(j)
         /\ synced' = syn
         /\ IF j > Len(c.indicies)
            THEN Run(c, ca, syn) /\ UNCHANGED <<at, state>>
            ELSE /\ ~syn[c.indicies[j]]
                 /\ at' = c.indicies[j] /\ state' = "SYNC_IN"
                 /\ cmd' = [c EXCEPT !.current = j]
                 /\ cache' = ca
                 /\ UNCHANGED completion
  BY DEF SyncPlugins
<1>2. c.indicies \in Seq(Plugins) /\ Len(c.indicies) \in Nat /\ j \in Nat
  BY <1>1, LenProperties DEF Ready, CommandType
<1>3. \A n \in 1..Len(c.indicies) : n < j /\ ~(n < i) => n \in i..j - 1
  BY <1>2
<1>4. Refusing(j) \subseteq Plugins /\ \A p \in Refusing(j) : ~syn[p]
  <2>1. \A n \in i..j - 1 : n \in 1..Len(c.indicies)
    BY <1>1, <1>2
  <2> QED BY <1>2, <2>1, ElementOfSeq
<1>5. unavailable' \in SUBSET Plugins /\ \A p \in unavailable' : ~syn[p]
  BY <1>1, <1>4 DEF Ready
<1>6. \A n \in 1..Len(c.indicies) : n < j => syn[c.indicies[n]] \/ c.indicies[n] \in unavailable'
  BY <1>1, <1>3 DEF Ready, Accounted
<1>7. c.op = "set" => \A n \in 1..Len(c.indicies) : n < j => syn[c.indicies[n]]
  BY <1>1, <1>3 DEF Ready, SetReady
<1>8. Ready(c, j, ca, syn, unavailable')
  BY <1>5, <1>6, <1>7 DEF Ready, SetReady, Accounted
<1>9. CASE j > Len(c.indicies)
  <2>1. j = Len(c.indicies) + 1
    BY <1>1, <1>2, <1>9
  <2> QED BY <1>1, <1>5, <1>8, <1>9, <2>1
<1>10. CASE ~(j > Len(c.indicies))
  <2>1. j \in 1..Len(c.indicies)
    BY <1>1, <1>2, <1>10
  <2> QED BY <1>1, <1>5, <1>8, <1>10, <2>1
<1> QED BY <1>9, <1>10

(* A command that is begun or goes on is a call that is begun or goes on.   *)
LEMMA SyncPluginsImplements ==
    ASSUME "set" \notin FailsIn, Inv, PromiseInv, open, ~SyncingOut, ~completion,
           NEW c, NEW i \in Nat \ {0}, NEW ca, NEW syn, NEW lost,
           Ready(c, i, ca, syn, lost), SyncPlugins(c, i, ca, syn, lost),
           CallOf(cmd) \in {CallOf(NoCommand), CallOf(c)},
           Draft(ca, syn, stored) = Draft(cache, synced, stored),
           \A p \in Plugins : synced[p] => syn[p],
           UNCHANGED <<stored, open, quitting, failed>>
    PROVE  Promise!Call /\ PromiseInv'
<1> DEFINE U == unavailable'
<1>1. /\ synced' = syn /\ U \in SUBSET Plugins
      /\ \A p \in U : ~syn[p]
      /\ \/ Run(c, ca, syn) /\ UNCHANGED <<at, state>>
            /\ Ready(c, Len(c.indicies) + 1, ca, syn, U)
         \/ \E j \in 1..Len(c.indicies) :
               /\ ~syn[c.indicies[j]]
               /\ at' = c.indicies[j] /\ state' = "SYNC_IN"
               /\ cmd' = [c EXCEPT !.current = j]
               /\ cache' = ca
               /\ UNCHANGED completion
               /\ Ready(c, j, ca, syn, U)
  BY SyncPluginsGoesOn
<1>2. /\ c \in CommandType /\ c.op \in Ops /\ ResultOf(c) = NoResult
      /\ ca \in Contents /\ syn \in [Plugins -> BOOLEAN] /\ IsSynced(ca, syn)
  BY DEF Ready
<1>3. CallOf(c) \in Promise!Calls
  BY <1>2 DEF CallOf, Promise!Calls, CommandType, Ops
<1>4. Promise!Found(U)
  <2>1. ASSUME NEW k \in Keys, Owner[k] \in U PROVE ~synced[Owner[k]]
    BY <1>1, <2>1
  <2> QED BY <1>1, <2>1 DEF Promise!Found, Inv, TypeOK
<1>5. ResultOf(cmd) = NoResult
  BY DEF PromiseInv, ResultInv
<1>6. ASSUME CallOf(cmd)' = CallOf(c), ~SyncingOut',
             \/ Promise!Read(CallOf(c), U) \/ Promise!Write(CallOf(c), U) \/ Promise!Erase(CallOf(c), U)
             \/ UNCHANGED <<Draft(cache, synced, stored), ResultOf(cmd)>>
      PROVE  Promise!Call
  <2>1. CallOf(cmd)' \in Promise!Calls /\ CallOf(cmd) \in {Promise!NoCall, CallOf(cmd)'}
    BY <1>3, <1>6 DEF CallOf, NoCommand, Command, Promise!NoCall
  <2> HIDE DEF U
  <2>2. \E l \in SUBSET Plugins :
           /\ Promise!Found(l)
           /\ \/ Promise!Read(CallOf(cmd)', l) \/ Promise!Write(CallOf(cmd)', l) \/ Promise!Erase(CallOf(cmd)', l)
              \/ UNCHANGED <<Draft(cache, synced, stored), ResultOf(cmd)>>
    <3>1. U \in SUBSET Plugins
      BY <1>1
    <3>2. \/ Promise!Read(CallOf(cmd)', U) \/ Promise!Write(CallOf(cmd)', U) \/ Promise!Erase(CallOf(cmd)', U)
          \/ UNCHANGED <<Draft(cache, synced, stored), ResultOf(cmd)>>
      BY <1>6, Zenon
    <3> QED BY <1>4, <3>1, <3>2, Zenon DEF Promise!Found, Promise!Read, Promise!Write, Promise!Erase
  <2> QED BY <1>5, <1>6, <2>1, <2>2, Zenon
          DEF Promise!Call, CallOf, Draft, ResultOf, NoResult, Promise!NoResult, Promise!Result,
              Nothing, Promise!Nothing
<1>7. CASE Run(c, ca, syn) /\ UNCHANGED <<at, state>> /\ Ready(c, Len(c.indicies) + 1, ca, syn, U)
  <2> DEFINE out == SyncFinished(c, ca, syn)
  <2>1. out \in OutcomeType
    BY <1>2, SyncFinishedType
  <2>2. /\ cmd'.err = out.err /\ cache' = out.cache /\ completion' = TRUE
        /\ cmd'.op = c.op /\ cmd'.args = c.args /\ cmd'.value = c.value
    BY <1>2, <1>7 DEF Run, CommandType
  <2>3. ASSUME NEW k \in Named(c)
        PROVE  (syn[Owner[k]] <=> Owner[k] \notin U) /\ (c.op = "set" => syn[Owner[k]])
    <3>1. PICK n \in 1..Len(c.indicies) : c.indicies[n] = Owner[k]
      BY <1>7 DEF Ready, Accounted, Covered, Named
    <3>2. n < Len(c.indicies) + 1
      BY LenProperties, <1>2 DEF CommandType
    <3> QED BY <1>1, <1>7, <3>1, <3>2 DEF Ready, Accounted, SetReady
  <2>4. c.op = "set" => Named(c) \cap ReadOnly = {}
    BY <1>7 DEF Ready, Accounted
  <2>5. \/ Promise!Read(CallOf(c), U) \/ Promise!Write(CallOf(c), U) \/ Promise!Erase(CallOf(c), U)
    BY <1>1, <1>2, <1>7, <2>3, <2>4, RunImplements
  <2>6. Promise!Call
    BY <1>6, <2>2, <2>5 DEF CallOf, SyncingOut
  <2>7. PromiseInv'
    BY <1>1, <2>1, <2>2 DEF PromiseInv, ResultInv, IdleInv, LostInv, SyncingInInv, SyncingOutInv,
                            SyncingIn, SyncingOut, OutcomeType
  <2> QED BY <2>6, <2>7
<1>8. ASSUME NEW j \in 1..Len(c.indicies),
             /\ ~syn[c.indicies[j]]
             /\ at' = c.indicies[j] /\ state' = "SYNC_IN"
             /\ cmd' = [c EXCEPT !.current = j]
             /\ cache' = ca
             /\ UNCHANGED completion
             /\ Ready(c, j, ca, syn, U)
      PROVE  Promise!Call /\ PromiseInv'
  <2>1. /\ cmd'.op = c.op /\ cmd'.args = c.args /\ cmd'.value = c.value
        /\ cmd'.err = c.err /\ cmd'.values = c.values /\ cmd'.refused = c.refused
        /\ cmd'.indicies = c.indicies /\ cmd'.current = j
    BY <1>2, <1>8 DEF CommandType
  <2>2. ResultOf(cmd)' = NoResult /\ CallOf(cmd)' = CallOf(c)
    BY <1>2, <2>1 DEF ResultOf, CallOf
  <2>3. Draft(cache, synced, stored)' = Draft(cache, synced, stored)
    BY <1>1, <1>8 DEF Draft
  <2>4. ~SyncingOut' /\ ~completion'
    BY <1>8 DEF SyncingOut
  <2>5. Promise!Call
    BY <1>5, <1>6, <2>2, <2>3, <2>4
  <2>6. SyncingInInv'
    BY <1>1, <1>8, <2>1 DEF SyncingInInv, Ready, Accounted, Named
  <2>7. PromiseInv'
    BY <1>1, <1>8, <2>2, <2>4, <2>6 DEF PromiseInv, ResultInv, IdleInv, LostInv, SyncingOutInv
  <2> QED BY <2>5, <2>7
<1> QED BY <1>1, <1>7, <1>8

-----------------------------------------------------------------------------
(* The end of a session. *)

(* When the session is over the draft is what is stored.                    *)
LEMMA OverDraft ==
    ASSUME stored' \in Contents, SessionOver
    PROVE  /\ Draft(cache, synced, stored)' = stored'
           /\ unavailable' = {} /\ ~open' /\ \A p \in Plugins : ~synced'[p]
BY PluginsAssumption DEF Draft, SessionOver, ClearCache, NoneSynced, Contents

(* What a plugin stores, all of its settings or some, is from the draft.    *)
LEMMA StoreImplements ==
    ASSUME Inv, NEW p \in Plugins, synced[p], NEW ks \in SUBSET KeysOf(p), Store(ks)
    PROVE  /\ stored' \in Contents
           /\ \A k \in Keys : stored'[k] \in {stored[k], Draft(cache, synced, stored)[k]}
           /\ \A k \in Keys : Owner[k] # p => stored'[k] = stored[k]
           /\ \A k \in ks : stored'[k] = Draft(cache, synced, stored)[k]
           /\ UNCHANGED <<cache, synced>> =>
                 Draft(cache, synced, stored)' = Draft(cache, synced, stored)
<1>1. stored \in Contents /\ cache \in Contents
  BY DEF Inv, TypeOK
<1>2. stored' = [k \in Keys |-> IF k \in ks THEN cache[k] ELSE stored[k]]
  BY DEF Store
<1>3. \A k \in ks : k \in Keys /\ Owner[k] = p
  BY DEF KeysOf
<1>4. \A k \in Keys : stored'[k] = IF k \in ks THEN Draft(cache, synced, stored)[k] ELSE stored[k]
  BY <1>2, <1>3 DEF Draft
<1> QED BY <1>1, <1>2, <1>3, <1>4, StoreType DEF Draft, Inv

(* prv_sync_out_next_plugin: the plugins before the i-th have stored their  *)
(* part of the draft or have failed.                                        *)
LEMMA SyncOutFromImplements ==
    ASSUME Inv, PromiseInv, open, ~completion, NEW i \in Nat \ {0}, NEW c \in CommandType,
           CallOf(c) = CallOf(EndCommand), ResultOf(c) = NoResult,
           \/ ~SyncingOut /\ CallOf(cmd) = CallOf(NoCommand)
           \/ SyncingOut /\ CallOf(cmd) = CallOf(c),
           NEW lost \in SUBSET Plugins, failed \subseteq lost,
           SyncOutFrom(i, c, lost), stored' \in Contents,
           \A k \in Keys : stored'[k] \in {stored[k], Draft(cache, synced, stored)[k]},
           \A k \in Keys : Owner[k] < i /\ Owner[k] \notin lost =>
              stored'[k] = Draft(cache, synced, stored)[k],
           UNCHANGED <<cache, synced>> => Draft(cache, synced, stored)' = Draft(cache, synced, stored),
           UNCHANGED quitting
    PROVE  Promise!End /\ PromiseInv'
<1> DEFINE D == Draft(cache, synced, stored)
<1>1. PICK j \in i..NPlugins + 1 :
         /\ failed' = lost \cup {p \in i..j - 1 : synced[p]}
         /\ at' = j /\ state' = "SYNC_OUT"
         /\ IF j > NPlugins
            THEN /\ SessionOver
                 /\ cmd' = [c EXCEPT !.err = "none"] /\ completion' = TRUE
            ELSE /\ synced[j]
                 /\ cmd' = c
                 /\ UNCHANGED <<cache, synced, completion, open, unavailable>>
  BY DEF SyncOutFrom
<1>2. NPlugins \in Nat /\ j \in Nat \ {0} /\ Owner \in [Keys -> Plugins]
  BY <1>1, PluginsAssumption
<1>3. i..j - 1 \subseteq Plugins
  BY <1>1, <1>2 DEF Plugins
<1>4. failed' \in SUBSET Plugins /\ failed \subseteq failed'
  BY <1>1, <1>3
<1>5. ASSUME NEW k \in Keys, Owner[k] < j, Owner[k] \notin failed' PROVE stored'[k] = D[k]
  <2>1. CASE Owner[k] < i
    BY <1>1, <1>5, <2>1
  <2>2. CASE ~(Owner[k] < i)
    <3>1. Owner[k] \in i..j - 1
      BY <1>2, <1>5, <2>2 DEF Plugins
    <3>2. ~synced[Owner[k]]
      BY <1>1, <1>5, <3>1
    <3> QED BY <3>2 DEF Draft
  <2> QED BY <2>1, <2>2
<1>6. Promise!Storing
  BY <1>4, PluginsAssumption DEF Promise!Storing, Contents, Draft
<1>7. ResultOf(cmd) = NoResult
  BY DEF PromiseInv, ResultInv
<1>8. ASSUME CallOf(cmd)' = CallOf(c)
      PROVE  \/ ~SyncingOut /\ CallOf(cmd) = Promise!NoCall /\ CallOf(cmd)' = Promise!EndCall
             \/ SyncingOut /\ UNCHANGED CallOf(cmd)
  BY <1>8 DEF CallOf, NoCommand, EndCommand, Command, Promise!NoCall, Promise!EndCall
<1>9. CASE j > NPlugins
  <2>1. CallOf(cmd)' = CallOf(c) /\ ResultOf(cmd)' = Promise!Ok /\ completion' /\ ~SyncingOut'
    BY <1>1, <1>9
       DEF CallOf, ResultOf, NoResult, SyncingOut, Promise!Ok, Promise!Result, Nothing, Promise!Nothing,
           CommandType
  <2>2. /\ Draft(cache, synced, stored)' = stored'
        /\ unavailable' = {} /\ ~open'
    BY <1>1, <1>9, OverDraft
  <2>3. Promise!Over
    BY <2>1, <2>2 DEF Promise!Over, Draft
  <2>4. Promise!AllStored
    <3>1. \A k \in Keys : Owner[k] < j
      BY <1>2, <1>9 DEF Plugins
    <3> QED BY <1>5, <3>1 DEF Promise!AllStored, Draft
  <2>5. Promise!End
    BY <1>6, <1>8, <2>1, <2>3, <2>4 DEF Promise!End, CallOf, ResultOf
  <2>6. completion' /\ cmd'.err # "pending"
    BY <1>1, <1>9 DEF CommandType
  <2>7. PromiseInv'
    BY <2>2, <2>6 DEF PromiseInv, ResultInv, IdleInv, LostInv, SyncingInInv, SyncingOutInv, SyncingIn, SyncingOut
  <2> QED BY <2>5, <2>7
<1>10. CASE ~(j > NPlugins)
  <2>1. /\ cmd' = c /\ state' = "SYNC_OUT" /\ at' = j /\ ~completion' /\ synced[j]
        /\ UNCHANGED <<cache, synced, completion, open, unavailable>>
    BY <1>1, <1>10
  <2>2. CallOf(cmd)' = CallOf(c) /\ ResultOf(cmd)' = NoResult /\ SyncingOut' /\ ~SyncingIn'
    BY <2>1 DEF CallOf, ResultOf, SyncingOut, SyncingIn
  <2>3. UNCHANGED Draft(cache, synced, stored)
    BY <2>1
  <2>4. Promise!End
    BY <1>6, <1>7, <1>8, <2>1, <2>2, <2>3 DEF Promise!End, CallOf, ResultOf, Draft
  <2>5. SyncingOutInv'
    BY <1>5, <2>1, <2>2, <2>3 DEF SyncingOutInv
  <2>6. PromiseInv'
    BY <2>1, <2>2, <2>5 DEF PromiseInv, ResultInv, IdleInv, LostInv, SyncingInInv
  <2> QED BY <2>4, <2>6
<1> QED BY <1>9, <1>10

-----------------------------------------------------------------------------
(* The step of the refinement. *)

ClientSees == <<stored, Draft(cache, synced, stored), unavailable, failed, SyncingOut, open,
                CallOf(cmd), ResultOf(cmd)>>

(* What the client does not see is a stutter of Settings.tla.               *)
LEMMA UnseenStutters == UNCHANGED ClientSees => UNCHANGED Promise!vars
BY DEF ClientSees, Promise!vars, CallOf, ResultOf, Draft

LEMMA NoCommandIsNoCall ==
    /\ CallOf(NoCommand) = Promise!NoCall /\ ResultOf(NoCommand) = NoResult
    /\ NoResult = Promise!NoResult
BY DEF CallOf, ResultOf, NoResult, NoCommand, Command, Promise!NoCall, Promise!NoResult,
       Promise!Result, Nothing, Promise!Nothing

LEMMA InitImplements == Init => Promise!Init /\ PromiseInv
<1> SUFFICES ASSUME Init PROVE Promise!Init /\ PromiseInv
  OBVIOUS
<1>1. Draft(cache, synced, stored) = stored
  BY PluginsAssumption DEF Init, Draft, NoneSynced, Contents
<1>2. CallOf(cmd) = Promise!NoCall /\ ResultOf(cmd) = Promise!NoResult /\ ResultOf(cmd) = NoResult
  BY NoCommandIsNoCall DEF Init
<1>3. Promise!Init
  BY <1>1, <1>2 DEF Init, Promise!Init, Draft, CallOf, ResultOf, Contents, SyncingOut
<1>4. PromiseInv
  BY <1>2 DEF Init, PromiseInv, ResultInv, IdleInv, LostInv, SyncingInInv, SyncingOutInv, SyncingIn, SyncingOut
<1> QED BY <1>3, <1>4

(* One step per action of Next. *)
LEMMA NextImplements ==
    ASSUME "set" \notin FailsIn, "get_multiple" \notin CancelIn, Inv, SyncedInv, PromiseInv, [Next]_vars
    PROVE  [Promise!Next]_Promise!vars /\ PromiseInv'
<1>1. ASSUME \/ Promise!Begin \/ Promise!Call \/ Promise!Cancel \/ Promise!Answer
             \/ Promise!End \/ Promise!Abort \/ Promise!Crash
      PROVE  [Promise!Next]_Promise!vars
  BY <1>1, Zenon DEF Promise!Next
<1>2. TypeOK /\ (IdleInv /\ state = "IDLE" /\ ~completion =>
                    CallOf(cmd) = Promise!NoCall /\ ResultOf(cmd) = NoResult /\ ~SyncingOut /\ ~SyncingIn)
  BY NoCommandIsNoCall DEF Inv, PromiseInv, IdleInv, ResultInv, SyncingOut, SyncingIn
<1>3. CASE SyncIn
  <2>1. Promise!Begin
    BY <1>2, <1>3 DEF SyncIn, PromiseInv, Promise!Begin, CallOf, SyncingOut
  <2>2. PromiseInv'
    BY <1>3 DEF SyncIn, PromiseInv, ResultInv, IdleInv, LostInv, SyncingInInv, SyncingOutInv, SyncingIn, SyncingOut
  <2> QED BY <1>1, <2>1, <2>2
<1>4. CASE SyncOut
  <2>1. /\ state = "IDLE" /\ ~completion /\ open /\ UNCHANGED <<stored, quitting>>
        /\ SyncOutFrom(1, EndCommand, failed)
    BY <1>4 DEF SyncOut, EndCommand
  <2>2. EndCommand \in CommandType /\ ResultOf(EndCommand) = NoResult
    <3>1. /\ <<>> \in Seq(SUBSET Keys) /\ <<>> \in Seq(Plugins)
          /\ "end" \in Ops \cup {"end", "none"} /\ Missing \in Values \cup {Missing}
      OBVIOUS
    <3>2. EndCommand \in CommandType
      BY <3>1, CommandIsCommand, Zenon DEF EndCommand
    <3> QED BY <3>2 DEF EndCommand, Command, ResultOf, NoResult
  <2>3. ~SyncingOut /\ CallOf(cmd) = CallOf(NoCommand)
    BY <2>1 DEF SyncingOut, PromiseInv, IdleInv
  <2>4. stored' \in Contents /\ failed \in SUBSET Plugins
    BY <1>2, <2>1 DEF TypeOK
  <2>5. \A k \in Keys : ~(Owner[k] < 1)
    BY PluginsAssumption DEF Plugins
  <2>6. UNCHANGED <<cache, synced>> => Draft(cache, synced, stored)' = Draft(cache, synced, stored)
    BY <2>1
  <2>7. Promise!End /\ PromiseInv'
    BY <2>1, <2>2, <2>3, <2>4, <2>5, <2>6, SyncOutFromImplements
  <2> QED BY <1>1, <2>7
<1>5. CASE Abort
  <2>1. stored' = stored /\ stored' \in Contents /\ SessionOver /\ ~SyncingOut'
    BY <1>2, <1>5 DEF Abort, TypeOK, SyncingOut
  <2>2. Draft(cache, synced, stored)' = stored' /\ unavailable' = {} /\ ~open'
    BY <2>1, OverDraft
  <2>3. Promise!Over
    BY <2>1, <2>2 DEF Promise!Over, Draft
  <2>4. Promise!Abort
    BY <1>2, <1>5, <2>3 DEF Abort, PromiseInv, Promise!Abort, CallOf
  <2>5. PromiseInv'
    BY <1>5, <2>1, <2>2 DEF Abort, PromiseInv, ResultInv, IdleInv, LostInv, SyncingInInv, SyncingOutInv, SyncingIn
  <2> QED BY <1>1, <2>4, <2>5
<1>6. CASE Complete
  <2>1. ResultOf(cmd) # Promise!NoResult
    BY <1>6 DEF Complete, PromiseInv, ResultInv, ResultOf, Promise!NoResult, Promise!Result
  <2>2. CallOf(cmd)' = Promise!NoCall /\ ResultOf(cmd)' = Promise!NoResult
    BY <1>6, NoCommandIsNoCall DEF Complete
  <2>3. ~SyncingOut /\ ~SyncingOut'
    BY <1>6 DEF Complete, SyncingOut
  <2>4. Promise!Answer
    BY <1>6, <2>1, <2>2, <2>3 DEF Complete, Promise!Answer, CallOf, ResultOf
  <2>5. PromiseInv'
    BY <1>6, NoCommandIsNoCall
       DEF Complete, PromiseInv, ResultInv, IdleInv, LostInv, SyncingInInv, SyncingOutInv, SyncingIn, SyncingOut
  <2> QED BY <1>1, <2>4, <2>5
<1>7. CASE Cancel
  <2>1. UNCHANGED ClientSees
    BY <1>7 DEF Cancel, ClientSees, SyncingOut
  <2>2. PromiseInv'
    BY <1>7 DEF Cancel, PromiseInv, ResultInv, IdleInv, LostInv, SyncingInInv, SyncingOutInv, SyncingIn, SyncingOut
  <2> QED BY <2>1, <2>2, UnseenStutters
<1>8. CASE Restart
  <2>1. stored' = stored /\ stored' \in Contents /\ SessionOver /\ ~SyncingOut' /\ ~SyncingIn'
    BY <1>2, <1>8 DEF Restart, TypeOK, SyncingOut, SyncingIn, SessionOver, ClearCache
  <2>2. Draft(cache, synced, stored)' = stored' /\ unavailable' = {} /\ ~open'
    BY <2>1, OverDraft
  <2>3. Promise!Over
    BY <2>1, <2>2 DEF Promise!Over, Draft
  <2>4. CallOf(cmd)' = Promise!NoCall /\ ResultOf(cmd)' = Promise!NoResult
    BY <1>8, NoCommandIsNoCall DEF Restart
  <2>5. Promise!Crash
    BY <1>8, <2>1, <2>3, <2>4 DEF Restart, Promise!Crash, CallOf, ResultOf
  <2>6. PromiseInv'
    BY <1>8, <2>1, <2>2, NoCommandIsNoCall
       DEF Restart, PromiseInv, ResultInv, IdleInv, LostInv, SyncingInInv, SyncingOutInv
  <2> QED BY <1>1, <2>5, <2>6
<1>9. CASE Commands
  <2>1. PICK op \in Ops, args \in Seq(SUBSET Keys), value \in Values \cup {Missing},
             indicies \in Seq(Plugins) :
               /\ Accept(op, args, value, indicies) /\ Covered(args, indicies)
               /\ op = "set" => (UNION Range(args)) \cap ReadOnly = {}
    BY <1>9, CommandsAccept
  <2> DEFINE c == Command(op, args, value, indicies)
  <2>2. /\ state = "IDLE" /\ ~completion /\ ~quitting /\ open
        /\ SyncPlugins(c, 1, cache, synced, unavailable)
        /\ UNCHANGED <<stored, open, quitting, failed>>
    BY <2>1 DEF Accept
  <2>3. c \in CommandType /\ c.op = op /\ c.args = args /\ c.indicies = indicies /\ ResultOf(c) = NoResult
    <3>1. /\ op \in Ops \cup {"end", "none"} /\ args \in Seq(SUBSET Keys)
          /\ value \in Values \cup {Missing} /\ indicies \in Seq(Plugins)
      OBVIOUS
    <3>2. Command(op, args, value, indicies) \in CommandType
      BY <3>1, CommandIsCommand
    <3> QED BY <3>2 DEF Command, ResultOf, NoResult
  <2> HIDE DEF c
  <2>4. \A n \in 1..Len(c.indicies) : ~(n < 1)
    OBVIOUS
  <2>5. Accounted(c, 1, synced, unavailable) /\ SetReady(c, 1, synced)
    BY <2>1, <2>3, <2>4 DEF Accounted, SetReady, Named
  <2>6. Ready(c, 1, cache, synced, unavailable)
    BY <1>2, <2>2, <2>3, <2>5 DEF Ready, TypeOK, SyncedInv, PromiseInv, LostInv
  <2>7. ~SyncingOut /\ CallOf(cmd) = CallOf(NoCommand)
    BY <2>2 DEF SyncingOut, PromiseInv, IdleInv
  <2>8. 1 \in Nat \ {0}
    OBVIOUS
  <2>9. Promise!Call /\ PromiseInv'
    BY <2>2, <2>6, <2>7, <2>8, SyncPluginsImplements
  <2> QED BY <1>1, <2>9
<1>10. ASSUME SyncingIn
       PROVE  /\ ~SyncingOut /\ ~completion /\ ResultOf(cmd) = NoResult
              /\ Accounted(cmd, cmd.current, synced, unavailable) /\ ~synced[at]
              /\ quitting => cmd.op \in CancelIn
              /\ \A p \in unavailable : ~synced[p]
  BY <1>10 DEF SyncingIn, SyncingOut, PromiseInv, ResultInv, SyncingInInv, LostInv
<1>11. CASE PluginSynced
  <2> DEFINE syn == [synced EXCEPT ![at] = TRUE]
             lost == unavailable \ {at}
  <2>1. /\ SyncingIn /\ SyncPlugins(cmd, cmd.current + 1, WithSettings(at), syn, lost)
        /\ UNCHANGED <<stored, open, quitting, failed>>
    BY <1>11 DEF PluginSynced
  <2>2. /\ WithSettings(at) \in Contents /\ syn \in [Plugins -> BOOLEAN]
        /\ syn[at] /\ \A p \in Plugins : p # at => syn[p] = synced[p]
        /\ IsSynced(WithSettings(at), syn) /\ SetReady(cmd, cmd.current + 1, syn)
    BY <2>1, AnswerSynced
  <2>3. /\ open /\ at \in Plugins /\ cmd \in CommandType /\ cmd.op \in Ops
        /\ cmd.current + 1 \in Nat \ {0} /\ cmd.current \in 1..Len(cmd.indicies)
        /\ cmd.indicies \in Seq(Plugins) /\ at = cmd.indicies[cmd.current]
        /\ unavailable \in SUBSET Plugins /\ IsSynced(cache, synced)
    BY <2>1, AtWork
  <2> HIDE DEF syn
  <2>4. \A p \in lost : ~syn[p]
    BY <1>10, <2>1, <2>2, <2>3
  <2>5. Accounted(cmd, cmd.current + 1, syn, lost)
    <3> SUFFICES ASSUME NEW n \in 1..Len(cmd.indicies), n < cmd.current + 1
                 PROVE  syn[cmd.indicies[n]] \/ cmd.indicies[n] \in lost
      BY <1>10, <2>1 DEF Accounted
    <3>1. cmd.indicies[n] \in Plugins
      BY <2>3, ElementOfSeq
    <3>2. CASE n = cmd.current
      BY <2>2, <2>3, <3>2
    <3>3. CASE n < cmd.current
      <4>1. synced[cmd.indicies[n]] \/ cmd.indicies[n] \in unavailable
        BY <1>10, <2>1, <3>3 DEF Accounted
      <4> QED BY <2>2, <3>1, <4>1
    <3> QED BY <2>3, <3>2, <3>3
  <2>6. Ready(cmd, cmd.current + 1, WithSettings(at), syn, lost)
    BY <1>10, <2>1, <2>2, <2>3, <2>4, <2>5 DEF Ready
  <2>7. Draft(WithSettings(at), syn, stored) = Draft(cache, synced, stored)
    <3> SUFFICES ASSUME NEW k \in Keys
                 PROVE  (IF syn[Owner[k]] THEN WithSettings(at)[k] ELSE stored[k])
                           = IF synced[Owner[k]] THEN cache[k] ELSE stored[k]
      BY DEF Draft
    <3>1. Owner[k] \in Plugins
      BY PluginsAssumption
    <3>2. CASE Owner[k] = at
      <4>1. cache[k] = Missing
        BY <1>10, <2>1, <2>3, <3>2 DEF IsSynced
      <4> QED BY <1>10, <2>1, <2>2, <3>2, <4>1 DEF WithSettings
    <3>3. CASE Owner[k] # at
      BY <2>2, <3>1, <3>3 DEF WithSettings
    <3> QED BY <3>2, <3>3
  <2>8. \A p \in Plugins : synced[p] => syn[p]
    BY <2>2
  <2> HIDE DEF lost
  <2>9. Promise!Call /\ PromiseInv'
    BY <1>10, <2>1, <2>3, <2>6, <2>7, <2>8, SyncPluginsImplements
  <2> QED BY <1>1, <2>9
<1>12. CASE PluginNotSynced
  <2> DEFINE lost == unavailable \cup {at}
  <2>1. /\ SyncingIn /\ cmd.op \in FailsIn
        /\ SyncPlugins(cmd, cmd.current + 1, cache, synced, lost)
        /\ UNCHANGED <<stored, open, quitting, failed>>
    BY <1>12 DEF PluginNotSynced
  <2>2. /\ open /\ at \in Plugins /\ cmd \in CommandType /\ cmd.op \in Ops
        /\ cmd.current + 1 \in Nat \ {0} /\ cmd.current \in 1..Len(cmd.indicies)
        /\ at = cmd.indicies[cmd.current]
        /\ cache \in Contents /\ synced \in [Plugins -> BOOLEAN]
        /\ unavailable \in SUBSET Plugins /\ IsSynced(cache, synced)
    BY <2>1, AtWork
  <2>3. SetReady(cmd, cmd.current + 1, synced)
    BY <2>1 DEF SetReady
  <2>4. Accounted(cmd, cmd.current + 1, synced, lost)
    BY <1>10, <2>1, <2>2 DEF Accounted
  <2>5. Ready(cmd, cmd.current + 1, cache, synced, lost)
    BY <1>10, <2>1, <2>2, <2>3, <2>4 DEF Ready
  <2> HIDE DEF lost
  <2>6. Promise!Call /\ PromiseInv'
    BY <1>10, <2>1, <2>2, <2>5, SyncPluginsImplements
  <2> QED BY <1>1, <2>6
<1>13. CASE PluginSyncCancelled
  <2>1. /\ SyncingIn /\ quitting /\ completion'
        /\ UNCHANGED <<stored, cache, synced, at, state, open, quitting, unavailable, failed>>
    BY <1>13 DEF PluginSyncCancelled
  <2>2. cmd.op \in Ops /\ cmd.op # "get_multiple" /\ cmd \in CommandType /\ open
    BY <1>10, <2>1, AtWork
  <2>3. cmd' = [cmd EXCEPT !.err = "cancelled"]
    BY <1>13, <2>2 DEF PluginSyncCancelled
  <2>4. CallOf(cmd)' = CallOf(cmd) /\ ResultOf(cmd)' = Promise!Error("cancelled") /\ cmd'.err = "cancelled"
    BY <1>10, <2>1, <2>2, <2>3
       DEF CallOf, ResultOf, NoResult, Promise!Error, Promise!Result, Nothing, Promise!Nothing, CommandType
  <2>5. CallOf(cmd) # Promise!NoCall /\ ResultOf(cmd) = Promise!NoResult
    BY <1>10, <2>1, <2>2, NoCommandIsNoCall DEF CallOf, Promise!NoCall, Ops
  <2>6. ~SyncingOut /\ ~SyncingOut' /\ ~SyncingIn'
    BY <2>1 DEF SyncingOut, SyncingIn
  <2>7. Promise!Cancel
    BY <2>1, <2>2, <2>4, <2>5, <2>6 DEF Promise!Cancel, CallOf, ResultOf
  <2>8. PromiseInv'
    BY <2>1, <2>4, <2>6 DEF PromiseInv, ResultInv, IdleInv, LostInv, SyncingInInv, SyncingOutInv
  <2> QED BY <1>1, <2>7, <2>8
<1>14. ASSUME SyncingOut
       PROVE  /\ open /\ ~completion /\ at \in Plugins /\ at + 1 \in Nat \ {0} /\ synced[at]
              /\ cmd \in CommandType /\ failed \in SUBSET Plugins /\ failed \cup {at} \in SUBSET Plugins
              /\ CallOf(cmd) = CallOf(EndCommand) /\ ResultOf(cmd) = NoResult
              /\ \A k \in Keys : Owner[k] < at /\ Owner[k] \notin failed =>
                    stored[k] = Draft(cache, synced, stored)[k]
  BY <1>2, <1>14
     DEF Inv, WorkInv, TypeOK, SyncingOut, Plugins, PromiseInv, ResultInv, SyncingOutInv
<1>15. ASSUME SyncingOut, NEW ks \in SUBSET KeysOf(at), Store(ks), NEW lost \in SUBSET Plugins,
              (lost = failed /\ ks = KeysOf(at)) \/ lost = failed \cup {at},
              SyncOutFrom(at + 1, cmd, lost), UNCHANGED quitting
       PROVE  Promise!End /\ PromiseInv'
  <2> DEFINE D == Draft(cache, synced, stored)
  <2>1. /\ stored' \in Contents
        /\ \A k \in Keys : stored'[k] \in {stored[k], D[k]}
        /\ \A k \in Keys : Owner[k] # at => stored'[k] = stored[k]
        /\ \A k \in ks : stored'[k] = D[k]
        /\ UNCHANGED <<cache, synced>> => Draft(cache, synced, stored)' = D
    BY <1>14, <1>15, StoreImplements
  <2>2. ASSUME NEW k \in Keys, Owner[k] < at + 1, Owner[k] \notin lost
        PROVE  stored'[k] = D[k]
    <3>1. CASE Owner[k] = at
      BY <1>15, <2>1, <2>2, <3>1 DEF KeysOf
    <3>2. CASE Owner[k] # at
      <4>1. Owner[k] < at
        BY <1>14, <1>15, <2>2, <3>2, PluginsAssumption DEF Plugins
      <4> QED BY <1>14, <1>15, <2>1, <2>2, <3>2, <4>1
    <3> QED BY <3>1, <3>2
  <2>3. failed \subseteq lost
    BY <1>15
  <2> QED BY <1>14, <1>15, <2>1, <2>2, <2>3, SyncOutFromImplements
<1>16. CASE PluginStored
  <2>1. SyncingOut /\ Store(KeysOf(at)) /\ SyncOutFrom(at + 1, cmd, failed) /\ UNCHANGED quitting
    BY <1>16 DEF PluginStored
  <2>2. Promise!End /\ PromiseInv'
    BY <1>14, <1>15, <2>1
  <2> QED BY <1>1, <2>2
<1>17. CASE PluginNotStored
  <2>1. PICK ks \in SUBSET KeysOf(at) : Store(ks)
    BY <1>17 DEF PluginNotStored
  <2>2. SyncingOut /\ SyncOutFrom(at + 1, cmd, failed \cup {at}) /\ UNCHANGED quitting
    BY <1>17 DEF PluginNotStored
  <2>3. Promise!End /\ PromiseInv'
    BY <1>14, <1>15, <2>1, <2>2
  <2> QED BY <1>1, <2>3
<1>18. CASE PluginStoreCancelled
  <2>1. PICK ks \in SUBSET KeysOf(at) : Store(ks)
    BY <1>18 DEF PluginStoreCancelled
  <2>2. /\ SyncingOut /\ SessionOver /\ completion' /\ UNCHANGED <<at, state, quitting, failed>>
        /\ cmd' = [cmd EXCEPT !.err = "cancelled"]
    BY <1>18 DEF PluginStoreCancelled
  <2>3. stored' \in Contents /\ \A k \in Keys : stored'[k] \in {stored[k], Draft(cache, synced, stored)[k]}
    BY <1>14, <2>1, <2>2, StoreImplements
  <2>4. Draft(cache, synced, stored)' = stored' /\ unavailable' = {} /\ ~open' /\ ~SyncingOut' /\ ~SyncingIn'
    BY <2>2, <2>3, OverDraft DEF SyncingOut, SyncingIn
  <2>5. Promise!Over
    BY <2>4 DEF Promise!Over, Draft
  <2>6. Promise!Storing
    BY <1>14, <2>2, <2>3 DEF Promise!Storing, Draft, Contents
  <2>7. CallOf(cmd)' = CallOf(cmd) /\ ResultOf(cmd)' = Promise!Error("cancelled") /\ cmd'.err = "cancelled"
    BY <1>14, <2>2
       DEF CallOf, ResultOf, NoResult, Promise!Error, Promise!Result, Nothing, Promise!Nothing, CommandType
  <2>8. Promise!End
    BY <2>2, <2>5, <2>6, <2>7 DEF Promise!End, CallOf, ResultOf
  <2>9. PromiseInv'
    BY <2>2, <2>4, <2>7 DEF PromiseInv, ResultInv, IdleInv, LostInv, SyncingInInv, SyncingOutInv
  <2> QED BY <1>1, <2>8, <2>9
<1>19. CASE UNCHANGED vars
  <2>1. UNCHANGED ClientSees
    BY <1>19 DEF vars, ClientSees, SyncingOut
  <2>2. PromiseInv'
    BY <1>19 DEF vars, PromiseInv, ResultInv, IdleInv, LostInv, SyncingInInv, SyncingOutInv, SyncingIn, SyncingOut
  <2> QED BY <2>1, <2>2, UnseenStutters
<1> QED BY <1>3, <1>4, <1>5, <1>6, <1>7, <1>8, <1>9, <1>11, <1>12, <1>13, <1>16, <1>17, <1>18, <1>19
        DEF Next, PluginAnswers

(* The client works on a draft that is stored at End, except for what a     *)
(* plugin fails to store, or not at all: however late plugins are           *)
(* synchronised, and whichever of them fail, as long as none fails for a    *)
(* Set and no GetMultiple is cancelled.                                     *)
THEOREM ImplementsSettings ==
    ASSUME "set" \notin FailsIn, "get_multiple" \notin CancelIn
    PROVE  Spec => Transactional
<1>1. Init => Promise!Init /\ PromiseInv
  BY InitImplements
<1>2. Init => SyncedInv
  BY DEF Init, SyncedInv, SyncingIn, IsSynced, Empty
<1>3. Inv /\ SyncedInv /\ PromiseInv /\ [Next]_vars => SyncedInv' /\ PromiseInv' /\ [Promise!Next]_Promise!vars
  BY NextSynced, NextImplements
<1> QED BY <1>1, <1>2, <1>3, AlwaysInv, PTL DEF Spec, Transactional, Promise!Spec
=============================================================================
