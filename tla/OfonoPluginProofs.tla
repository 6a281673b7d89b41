-------------------------- MODULE OfonoPluginProofs --------------------------
(***************************************************************************)
(* The plugin for internet and MMS contexts, for any modems, SIMs and       *)
(* contexts and whatever other programs do: it is well typed, it answers    *)
(* each operation once, it lists what there is and it stores what is        *)
(* wanted.  Of all calls only GetContexts is not cancelled: the one that is *)
(* cancelled is completed twice.                                            *)
(***************************************************************************)
EXTENDS OfonoPlugin, Folding

CommandTypes == {"delete", "delete mms", "add", "add mms", "set", "clear"}
AllCommands == [type : CommandTypes, key : Keys]
ModemType == [path : Range(Modems), cmProxy : BOOLEAN, knows : SUBSET Paths,
              proxies : SUBSET Paths, settings : Settings, mms : Mms \cup {None}]
IsModem(m) == m \in ModemType /\ m.proxies \subseteq m.knows

-----------------------------------------------------------------------------
(* What the operators make. *)

LEMMA FirstFound ==
    ASSUME NEW S, NEW paths \in Seq(S), NEW ps
    PROVE  /\ First(paths, ps) \in (Range(paths) \cap ps) \cup {None}
           /\ Range(paths) \cap ps # {} => First(paths, ps) \in Range(paths) \cap ps
<1> DEFINE there == {i \in DOMAIN paths : paths[i] \in ps}
<1>1. First(paths, ps) = IF there = {} THEN None ELSE paths[CHOOSE i \in there : \A j \in there : i <= j]
  BY DEF First
<1>2. there \in SUBSET Nat /\ there \subseteq DOMAIN paths /\ \A i \in there : paths[i] \in Range(paths) \cap ps
  <2>1. DOMAIN paths \subseteq Nat
    OBVIOUS
  <2> QED BY <2>1 DEF Range
<1>3. Range(paths) \cap ps # {} => there # {}
  BY DEF Range
<1> HIDE DEF there
<1>4. ASSUME there # {} PROVE (CHOOSE i \in there : \A j \in there : i <= j) \in there
  BY <1>2, <1>4, LeastIndex
<1> QED BY <1>1, <1>2, <1>3, <1>4

LEMMA CommandTypesAll == Range(Commands) = CommandTypes
<1>1. DOMAIN Commands = 1..6
  BY DEF Commands
<1>2. Range(Commands) = {Commands[i] : i \in 1..6}
  BY <1>1 DEF Range
<1>3. 1..6 = {1, 2, 3, 4, 5, 6}
  OBVIOUS
<1>4. /\ Commands[1] = "delete" /\ Commands[2] = "delete mms" /\ Commands[3] = "add"
      /\ Commands[4] = "add mms" /\ Commands[5] = "set" /\ Commands[6] = "clear"
  BY DEF Commands
<1>5. Range(Commands) = {Commands[1], Commands[2], Commands[3], Commands[4], Commands[5], Commands[6]}
  BY <1>2, <1>3
<1> QED BY <1>4, <1>5 DEF CommandTypes

LEMMA IsSettings ==
    ASSUME NEW ks \in SUBSET Keys, NEW s, s = [k \in ks |-> s[k]], \A k \in ks : s[k] \in Values
    PROVE  s \in Settings /\ DOMAIN s = ks
<1>1. s \in [ks -> Values]
  OBVIOUS
<1> QED BY <1>1 DEF Settings

LEMMA SettingsAre ==
    ASSUME NEW s \in Settings
    PROVE  DOMAIN s \subseteq Keys /\ s = [k \in DOMAIN s |-> s[k]] /\ \A k \in DOMAIN s : s[k] \in Values
<1>1. PICK ks \in SUBSET Keys : s \in [ks -> Values]
  BY DEF Settings
<1> QED BY <1>1

LEMMA EmptyType == Empty \in Settings /\ DOMAIN Empty = {}
<1>1. DOMAIN Empty = {} /\ Empty = [k \in {} |-> Empty[k]]
  BY DEF Empty
<1> QED BY <1>1, IsSettings

LEMMA OverrideType ==
    ASSUME NEW f \in Settings, NEW g \in Settings
    PROVE  f @@ g \in Settings
<1>1. f @@ g = [k \in DOMAIN f \cup DOMAIN g |-> IF k \in DOMAIN f THEN f[k] ELSE g[k]]
  BY DEF @@
<1>2. \A k \in DOMAIN f \cup DOMAIN g : (f @@ g)[k] \in Values
  BY <1>1, SettingsAre
<1>3. DOMAIN f \cup DOMAIN g \subseteq Keys
  BY SettingsAre
<1>4. f @@ g = [k \in DOMAIN f \cup DOMAIN g |-> (f @@ g)[k]]
  BY <1>1
<1> QED BY <1>2, <1>3, <1>4, IsSettings

ContextsOK == DOMAIN contexts \subseteq Paths /\ \A p \in DOMAIN contexts : contexts[p] \in Values

LEMMA MmsFound == ASSUME NEW ps PROVE First(MmsPaths, ps) \in (Mms \cap ps) \cup {None}
BY FirstFound, SimsAssumption DEF Mms

LEMMA ViewType ==
    ASSUME ContextsOK, NEW i
    PROVE  /\ View(i) \in Settings
           /\ DOMAIN View(i) = (Of(i) \cap Internet) \cup (IF First(MmsPaths, Of(i)) = None THEN {} ELSE {"mms"})
<1> DEFINE mms == First(MmsPaths, Of(i))
           ks == (Of(i) \cap Internet) \cup (IF mms = None THEN {} ELSE {"mms"})
<1>1. View(i) = [k \in ks |-> contexts[IF k = "mms" THEN mms ELSE k]]
  BY DEF View
<1>2. ks \subseteq Keys
  BY DEF Keys
<1>3. \A k \in ks : View(i)[k] \in Values
  <2> TAKE k \in ks
  <2>1. CASE k = "mms"
    <3>1. mms # None
      BY <2>1, SimsAssumption DEF Internet
    <3>2. mms \in Of(i)
      BY <3>1, MmsFound
    <3> QED BY <1>1, <2>1, <3>2 DEF Of, ContextsOK
  <2>2. CASE k # "mms"
    <3>1. k \in Of(i)
      BY <2>2
    <3> QED BY <1>1, <2>2, <3>1 DEF Of, ContextsOK
  <2> QED BY <2>1, <2>2
<1> HIDE DEF ks
<1>4. View(i) = [k \in ks |-> View(i)[k]]
  BY <1>1
<1>5. View(i) \in Settings /\ DOMAIN View(i) = ks
  BY <1>2, <1>3, <1>4, IsSettings
<1> QED BY <1>5 DEF ks

LEMMA UpdateContextsType ==
    ASSUME ContextsOK, NEW m, IsModem(m)
    PROVE  /\ IsModem(UpdateContexts(m))
           /\ UpdateContexts(m).path = m.path
           /\ UpdateContexts(m).mms = IF m.mms = None THEN First(MmsPaths, Of(sims[m.path])) ELSE m.mms
           /\ m.mms = None => UpdateContexts(m).settings = View(sims[m.path]) @@ m.settings
           /\ m.mms # None => UpdateContexts(m).settings =
                 [k \in Of(sims[m.path]) \cap Internet |-> View(sims[m.path])[k]] @@ m.settings
<1> DEFINE there == Of(sims[m.path])
           view == View(sims[m.path])
           some == [k \in there \cap Internet |-> view[k]]
           s == (IF m.mms = None THEN view ELSE some) @@ m.settings
<1>1. UpdateContexts(m) = [m EXCEPT !.knows = m.knows \cup there,
                              !.mms = IF m.mms = None THEN First(MmsPaths, there) ELSE m.mms,
                              !.settings = s]
  BY DEF UpdateContexts
<1>2. there \subseteq Paths
  BY DEF Of, ContextsOK
<1>3. (IF m.mms = None THEN First(MmsPaths, there) ELSE m.mms) \in Mms \cup {None}
  BY MmsFound DEF IsModem, ModemType
<1>4. s \in Settings
  <2>1. view \in Settings /\ there \cap Internet \subseteq DOMAIN view
    BY ViewType
  <2>2. some \in Settings
    <3> HIDE DEF view, there
    <3>1. \A k \in there \cap Internet : some[k] \in Values
      BY <2>1, SettingsAre
    <3>2. there \cap Internet \subseteq Keys
      BY DEF Keys
    <3>3. some = [k \in there \cap Internet |-> some[k]]
      OBVIOUS
    <3> HIDE DEF some
    <3> QED BY <3>1, <3>2, <3>3, IsSettings
  <2>3. m.settings \in Settings
    BY DEF IsModem, ModemType
  <2> HIDE DEF view, there, some
  <2> QED BY <2>1, <2>2, <2>3, OverrideType
<1>5. UpdateContexts(m).settings = s
  BY <1>1 DEF IsModem, ModemType
<1>6. /\ UpdateContexts(m).path = m.path
      /\ UpdateContexts(m).mms = IF m.mms = None THEN First(MmsPaths, there) ELSE m.mms
  BY <1>1 DEF IsModem, ModemType
<1>7. IsModem(UpdateContexts(m))
  <2> HIDE DEF there, s
  <2> QED BY <1>1, <1>2, <1>3, <1>4 DEF IsModem, ModemType
<1> QED BY <1>5, <1>6, <1>7

LEMMA EditedType == ASSUME NEW old \in Settings, NEW new \in Edited(old) PROVE new \in Settings
<1> DEFINE mine == {IF p \in Mms THEN "mms" ELSE p : p \in {q \in Paths : Sim[q] = imsi}}
<1>1. PICK ks \in SUBSET (DOMAIN old \cup mine) : new \in [ks -> Values]
  BY DEF Edited
<1>2. mine \subseteq Keys
  BY DEF Keys, Internet
<1>3. DOMAIN old \subseteq Keys
  BY SettingsAre
<1> HIDE DEF mine
<1>4. ks \subseteq Keys
  BY <1>2, <1>3
<1> QED BY <1>1, <1>4 DEF Settings

LEMMA AllAre == ASSUME NEW type, NEW keys, NEW c \in All(type, keys) PROVE c = [type |-> type, key |-> c.key] /\ c.type = type /\ c.key \in keys
BY DEF All

LEMMA AnalyseType ==
    ASSUME NEW m, m.settings \in Settings, NEW new \in Settings
    PROVE  Analyse(m, new) \subseteq AllCommands /\ \A c \in Analyse(m, new) : c.type = "set" => c.key \in DOMAIN new
<1> DEFINE old == m.settings
<1>1. DOMAIN old \subseteq Keys /\ DOMAIN new \subseteq Keys
  BY SettingsAre
<1>2. "mms" \in Keys
  BY DEF Keys
<1>3. SUFFICES ASSUME NEW c \in Analyse(m, new)
               PROVE  c \in AllCommands /\ (c.type = "set" => c.key \in DOMAIN new)
  OBVIOUS
<1>4. \/ c \in All("delete", (DOMAIN old \cap Internet) \ DOMAIN new)
      \/ c \in All("delete mms", IF m.mms = None THEN {} ELSE {"mms"} \ DOMAIN new)
      \/ c \in All("add", (DOMAIN new \cap Internet) \ DOMAIN old)
      \/ c \in All("add mms", IF m.mms = None THEN {"mms"} \cap DOMAIN new ELSE {})
      \/ c \in All("set", {k \in DOMAIN new : new[k] # Unset /\ (k \in DOMAIN old => old[k] # new[k])})
      \/ c \in All("clear", {k \in DOMAIN old : IF k \in DOMAIN new THEN new[k] = Unset /\ old[k] # Unset ELSE TRUE})
  BY DEF Analyse
<1>5. PICK type \in CommandTypes, keys \in SUBSET Keys :
          c \in All(type, keys) /\ (type = "set" => keys \subseteq DOMAIN new)
  <2> HIDE DEF old
  <2>1. CASE c \in All("delete", (DOMAIN old \cap Internet) \ DOMAIN new)
    <3>1. (DOMAIN old \cap Internet) \ DOMAIN new \in SUBSET Keys /\ "delete" \in CommandTypes
      BY <1>1 DEF CommandTypes, old
    <3> QED BY <2>1, <3>1
  <2>2. CASE c \in All("delete mms", IF m.mms = None THEN {} ELSE {"mms"} \ DOMAIN new)
    <3>1. (IF m.mms = None THEN {} ELSE {"mms"} \ DOMAIN new) \in SUBSET Keys /\ "delete mms" \in CommandTypes
      BY <1>2 DEF CommandTypes
    <3> QED BY <2>2, <3>1
  <2>3. CASE c \in All("add", (DOMAIN new \cap Internet) \ DOMAIN old)
    <3>1. (DOMAIN new \cap Internet) \ DOMAIN old \in SUBSET Keys /\ "add" \in CommandTypes
      BY <1>1 DEF CommandTypes
    <3> QED BY <2>3, <3>1
  <2>4. CASE c \in All("add mms", IF m.mms = None THEN {"mms"} \cap DOMAIN new ELSE {})
    <3>1. (IF m.mms = None THEN {"mms"} \cap DOMAIN new ELSE {}) \in SUBSET Keys /\ "add mms" \in CommandTypes
      BY <1>2 DEF CommandTypes
    <3> QED BY <2>4, <3>1
  <2>5. CASE c \in All("set", {k \in DOMAIN new : new[k] # Unset /\ (k \in DOMAIN old => old[k] # new[k])})
    <3> DEFINE keys == {k \in DOMAIN new : new[k] # Unset /\ (k \in DOMAIN old => old[k] # new[k])}
    <3>1. keys \in SUBSET Keys /\ keys \subseteq DOMAIN new /\ "set" \in CommandTypes
      BY <1>1 DEF CommandTypes
    <3>2. c \in All("set", keys)
      BY <2>5
    <3> HIDE DEF keys
    <3> QED BY <3>1, <3>2
  <2>6. CASE c \in All("clear", {k \in DOMAIN old : IF k \in DOMAIN new THEN new[k] = Unset /\ old[k] # Unset ELSE TRUE})
    <3> DEFINE keys == {k \in DOMAIN old : IF k \in DOMAIN new THEN new[k] = Unset /\ old[k] # Unset ELSE TRUE}
    <3>1. keys \in SUBSET Keys /\ "clear" \in CommandTypes
      BY <1>1 DEF CommandTypes, old
    <3>2. c \in All("clear", keys)
      BY <2>6
    <3> HIDE DEF keys
    <3> QED BY <3>1, <3>2
  <2> QED BY <1>4, <2>1, <2>2, <2>3, <2>4, <2>5, <2>6 DEF old
<1>6. c = [type |-> type, key |-> c.key] /\ c.type = type /\ c.key \in keys
  BY <1>5, AllAre
<1> QED BY <1>5, <1>6 DEF AllCommands

(* The next command, or the end of them.                                    *)
LEMMA SyncOutStepType ==
    ASSUME NEW m, NEW cs \in SUBSET AllCommands, SyncOutStep(m, cs)
    PROVE  /\ cmds' \subseteq cs
           /\ \/ call' = "complete sync out" /\ at' = None /\ quit' = FALSE /\ cbErr' = "none" /\ completions' = 1
              \/ call' = "crashed" /\ UNCHANGED <<at, quit, completions, cbErr>>
              \/ \E c \in cs : call' = c.type /\ at' = c.key /\ quit' = FALSE /\ UNCHANGED <<completions, cbErr>>
<1> DEFINE left == IF \E c \in cs : ~IsSet(c) THEN cs ELSE {c \in cs : ~Skipped(m, c)}
           type == First(Commands, {c.type : c \in left})
<1>1. left \subseteq cs
  OBVIOUS
<1>2. IF left = {}
      THEN CompleteLater("complete sync out", "none", 1) /\ cmds' = {}
      ELSE \E c \in {d \in left : d.type = type} :
              /\ cmds' = left \ {c}
              /\ IF IsSet(c) /\ Target(m, c) = None
                 THEN call' = "crashed" /\ UNCHANGED <<at, quit, completions, cbErr>>
                 ELSE Await(type, c.key)
  BY DEF SyncOutStep
<1> HIDE DEF left, type
<1>3. CASE left = {}
  BY <1>2, <1>3 DEF CompleteLater
<1>4. CASE left # {}
  <2>1. PICK c \in {d \in left : d.type = type} :
              /\ cmds' = left \ {c}
              /\ IF IsSet(c) /\ Target(m, c) = None
                 THEN call' = "crashed" /\ UNCHANGED <<at, quit, completions, cbErr>>
                 ELSE Await(type, c.key)
    BY <1>2, <1>4
  <2>2. c \in cs /\ c.type = type
    BY <1>1, <2>1
  <2>3. CASE IsSet(c) /\ Target(m, c) = None
    BY <1>1, <2>1, <2>3
  <2>4. CASE ~(IsSet(c) /\ Target(m, c) = None)
    BY <1>1, <2>1, <2>2, <2>4 DEF Await
  <2> QED BY <2>3, <2>4
<1> QED BY <1>3, <1>4

(* oFono's answer to a command is about one context, of the SIM that is in  *)
(* the modem.                                                               *)
LEMMA AppliedType ==
    ASSUME ContextsOK, CanApply, wanted \in Settings, call \in CommandTypes, call = "set" => at \in DOMAIN wanted
    PROVE  /\ DOMAIN Applied \subseteq Paths /\ \A p \in DOMAIN Applied : Applied[p] \in Values
           /\ CommandPath \in Paths /\ Here(CommandPath)
           /\ \A p : p # CommandPath => (p \in DOMAIN Applied <=> p \in DOMAIN contexts)
           /\ \A p \in DOMAIN Applied : p # CommandPath => Applied[p] = contexts[p]
<1> DEFINE q == CommandPath
<1>1. q \in Paths /\ Here(q)
  BY DEF CanApply
<1>2. CASE call \in {"delete", "delete mms"}
  <2>1. Applied = [p \in DOMAIN contexts \ {q} |-> contexts[p]]
    BY <1>2 DEF Applied
  <2> HIDE DEF q
  <2> QED BY <1>1, <2>1 DEF ContextsOK, q
<1>3. ASSUME NEW v \in Values, Applied = (q :> v) @@ contexts
      PROVE  /\ DOMAIN Applied \subseteq Paths /\ \A p \in DOMAIN Applied : Applied[p] \in Values
             /\ \A p : p # CommandPath => (p \in DOMAIN Applied <=> p \in DOMAIN contexts)
             /\ \A p \in DOMAIN Applied : p # CommandPath => Applied[p] = contexts[p]
  <2> HIDE DEF q
  <2>1. Applied = [p \in {q} \cup DOMAIN contexts |-> IF p = q THEN v ELSE contexts[p]]
    BY <1>3 DEF :>, @@
  <2>2. DOMAIN Applied = {q} \cup DOMAIN contexts
    BY <2>1
  <2>3. \A p \in {q} \cup DOMAIN contexts : Applied[p] = IF p = q THEN v ELSE contexts[p]
    BY <2>1
  <2>4. q = CommandPath
    BY DEF q
  <2> HIDE DEF Applied
  <2> QED BY <1>1, <2>2, <2>3, <2>4 DEF ContextsOK
<1>4. CASE call \in {"add", "add mms"}
  <2>1. Applied = (q :> Unset) @@ contexts /\ Unset \in Values
    BY <1>4 DEF Applied, Values
  <2> QED BY <1>1, <1>3, <2>1
<1>5. CASE call = "set"
  <2>1. Applied = (q :> wanted[at]) @@ contexts
    BY <1>5 DEF Applied
  <2>2. wanted[at] \in Values
    BY <1>5, SettingsAre
  <2> QED BY <1>1, <1>3, <2>1, <2>2
<1>6. CASE call = "clear"
  <2>1. Applied = (q :> Unset) @@ contexts /\ Unset \in Values
    BY <1>6 DEF Applied, Values
  <2> QED BY <1>1, <1>3, <2>1
<1> QED BY <1>1, <1>2, <1>4, <1>5, <1>6 DEF CommandTypes

-----------------------------------------------------------------------------
(* Types, and where the calls stand: which of them belong to which          *)
(* operation, what they are about, and that nothing is cancelled unasked.   *)

DataOK ==
    /\ sims \in SimsIn /\ ContextsOK
    /\ DOMAIN modems \subseteq Imsis /\ \A i \in DOMAIN modems : IsModem(modems[i])
    /\ default \in DOMAIN modems \cup {NoImsi} /\ imsi \in Imsis \cup {NoImsi}
    /\ unseen \subseteq DOMAIN modems

SearchOK ==
    /\ list \in Seq(Range(Modems))
    /\ DOMAIN found \subseteq Imsis /\ \A i \in DOMAIN found : found[i] \in Range(Modems)

CommandsOK ==
    /\ cmds \subseteq AllCommands /\ wanted \in Settings /\ failed \in BOOLEAN
    /\ \A c \in cmds : c.type = "set" => c.key \in DOMAIN wanted

CallOK ==
    /\ call \in InCalls \cup CommandTypes \cup {"new proxy", "forgotten", "crashed", None} \cup IdleSources
    /\ at \in Paths \cup Keys \cup {None}
    /\ cbErr \in {"none", "io", "not_found", "cancelled"}
    /\ completions = (IF call \in {"complete sync in", "complete sync out"} THEN 1 ELSE 0)
    /\ owed = (IF call = None THEN 0 ELSE 1)

PlaceOK ==
    /\ call \in InCalls \cup {"modems done", "complete sync in", "forgotten"} => phase = "syncing in"
    /\ call \in CommandTypes \cup {"new proxy", "complete sync out", "crashed"} => phase = "syncing out"
    /\ call = None => phase \in {"open", "closed"}
    /\ phase \in {"open", "syncing out"} => imsi \in DOMAIN modems
    /\ call \in InCalls \ TaskCalls \/ (call = "complete sync in" /\ cbErr = "none") => imsi \in DOMAIN modems
    /\ call \in {"sim proxy", "sim properties"} => list # <<>>
    /\ call = "context proxy" => at \in Modem.knows
    /\ call = "new proxy" => at \in Paths
    /\ call = "set" => at \in DOMAIN wanted

QuitOK ==
    /\ quit \in BOOLEAN
    /\ quit => call \in CancelIn /\ call \in InCalls \cup CommandTypes \cup {"new proxy"}
    /\ quit \/ cbErr = "cancelled" => cancelled

TypeInv == DataOK /\ SearchOK /\ CommandsOK /\ CallOK /\ PlaceOK /\ QuitOK

LEMMA TypesOK == TypeInv => TypeOK
<1> SUFFICES ASSUME TypeInv PROVE TypeOK
  OBVIOUS
<1> USE DEF TypeInv
<1>1. /\ sims \in SimsIn /\ DOMAIN contexts \subseteq Paths /\ Range(contexts) \subseteq Values
      /\ DOMAIN modems \subseteq Imsis
      /\ default \in DOMAIN modems \cup {NoImsi} /\ imsi \in Imsis \cup {NoImsi}
      /\ unseen \subseteq DOMAIN modems
  BY DEF DataOK, ContextsOK, Range
<1>2. \A i \in DOMAIN modems : modems[i] \in ModemType /\ modems[i].proxies \subseteq modems[i].knows
  BY DEF DataOK, IsModem
<1>3. list \in Seq(Range(Modems)) /\ DOMAIN found \subseteq Imsis /\ Range(found) \subseteq Range(Modems)
  <2>1. \A i \in DOMAIN found : found[i] \in Range(Modems)
    BY DEF SearchOK
  <2> QED BY <2>1 DEF SearchOK, Range
<1>4. cmds \subseteq [type : Range(Commands), key : Keys] /\ wanted \in Settings
  BY CommandTypesAll DEF CommandsOK, AllCommands
<1>5. /\ call \in InCalls \cup OutCalls \cup IdleSources \cup {None, "forgotten", "crashed"}
      /\ at \in Paths \cup Keys \cup {None}
      /\ completions = (IF call \in {"complete sync in", "complete sync out"} THEN 1 ELSE 0)
      /\ owed = (IF call = None THEN 0 ELSE 1)
      /\ cbErr \in {"none", "io", "not_found", "cancelled"}
  BY CommandTypesAll DEF CallOK, OutCalls
<1>6. quit \in BOOLEAN /\ failed \in BOOLEAN
  BY Zenon DEF QuitOK, CommandsOK
<1>7. phase \in {"open", "syncing out"} => imsi \in DOMAIN modems
  BY DEF PlaceOK
<1> QED BY <1>1, <1>2, <1>3, <1>4, <1>5, <1>6, <1>7 DEF TypeOK, ModemType

-----------------------------------------------------------------------------
(* Each step keeps the types.                                               *)

LEMMA ModemUpdated ==
    ASSUME DataOK, imsi \in DOMAIN modems, ContextsOK',
           DOMAIN modems' = DOMAIN modems, \A i \in DOMAIN modems \ {imsi} : modems'[i] = modems[i],
           IsModem(modems'[imsi]), UNCHANGED <<sims, default, imsi, unseen>>
    PROVE  DataOK'
<1>1. \A i \in DOMAIN modems' : IsModem(modems'[i])
  BY DEF DataOK
<1> QED BY <1>1 DEF DataOK

LEMMA MembershipIsBoolean == ASSUME NEW q, NEW x, NEW S, q = (x \in S) PROVE q \in BOOLEAN
<1>1. (x \in S) \in BOOLEAN
  OBVIOUS
<1> QED BY <1>1, Zenon

LEMMA OneLess == 1 - 1 = 0
OBVIOUS

LEMMA NothingOwed == ASSUME CallOK, owed = 0 PROVE call = None
<1>1. CASE call # None
  <2>1. owed = 1
    BY <1>1 DEF CallOK
  <2> QED BY <2>1
<1> QED BY <1>1

(* Where the calls of sync_out lead. *)
LEMMA SyncOutStepPlace ==
    ASSUME TypeInv, ~quit, completions = 0, NEW m, NEW cs \in SUBSET AllCommands, SyncOutStep(m, cs),
           phase' = "syncing out", owed' = 1, UNCHANGED cancelled, imsi' \in DOMAIN modems',
           wanted' \in Settings, failed' \in BOOLEAN, \A c \in cs : c.type = "set" => c.key \in DOMAIN wanted'
    PROVE  CommandsOK' /\ CallOK' /\ PlaceOK' /\ QuitOK'
<1> USE DEF TypeInv, None
<1>1. cmds' \subseteq cs
  BY SyncOutStepType
<1>2. CommandsOK'
  BY <1>1 DEF CommandsOK
<1>3. quit = FALSE
  BY DEF QuitOK
<1>4. CASE call' = "complete sync out" /\ at' = None /\ quit' = FALSE /\ cbErr' = "none" /\ completions' = 1
  <2>1. CallOK'
    BY <1>4 DEF CallOK, IdleSources
  <2>2. PlaceOK'
    BY <1>4 DEF PlaceOK, InCalls, TaskCalls, CommandTypes
  <2>3. QuitOK'
    BY <1>4 DEF QuitOK
  <2> QED BY <1>2, <2>1, <2>2, <2>3
<1>5. CASE call' = "crashed" /\ UNCHANGED <<at, quit, completions, cbErr>>
  <2>1. CallOK'
    BY <1>5 DEF CallOK
  <2>2. PlaceOK'
    BY <1>5 DEF PlaceOK, InCalls, TaskCalls, CommandTypes
  <2>3. QuitOK'
    BY <1>3, <1>5 DEF QuitOK
  <2> QED BY <1>2, <2>1, <2>2, <2>3
<1>6. ASSUME NEW c \in cs, call' = c.type, at' = c.key, quit' = FALSE, UNCHANGED <<completions, cbErr>>
      PROVE  CallOK' /\ PlaceOK' /\ QuitOK'
  <2>1. c.type \in CommandTypes /\ c.key \in Keys
    BY DEF AllCommands
  <2>2. CallOK'
    BY <1>6, <2>1 DEF CallOK, CommandTypes
  <2>3. PlaceOK'
    BY <1>6, <2>1 DEF PlaceOK, InCalls, TaskCalls, CommandTypes
  <2>4. QuitOK'
    BY <1>6 DEF QuitOK
  <2> QED BY <2>2, <2>3, <2>4
<1> QED BY <1>2, <1>4, <1>5, <1>6, SyncOutStepType

LEMMA TypeInit == Init => TypeInv
<1> SUFFICES ASSUME Init PROVE TypeInv
  OBVIOUS
<1>1. PICK ps \in SUBSET OthersMake : contexts = [p \in ps |-> Theirs]
  BY DEF Init
<1>2. DOMAIN Empty = {}
  BY EmptyType
<1>3. DataOK
  BY <1>1, <1>2, SimsAssumption DEF Init, DataOK, ContextsOK, Values
<1>4. SearchOK
  BY <1>2 DEF Init, SearchOK
<1>5. CommandsOK
  <2>1. failed \in BOOLEAN
    BY Zenon DEF Init
  <2> QED BY <2>1, EmptyType DEF Init, CommandsOK
<1>6. CallOK
  BY DEF Init, CallOK, None
<1>7. PlaceOK
  BY DEF Init, PlaceOK, InCalls, TaskCalls, IdleSources, CommandTypes, None
<1>8. QuitOK
  BY DEF Init, QuitOK
<1> QED BY <1>3, <1>4, <1>5, <1>6, <1>7, <1>8 DEF TypeInv

LEMMA TypeStart ==
    ASSUME "get contexts" \notin CancelIn, TypeInv, SyncIn \/ SyncOut \/ Abort \/ Cancel
    PROVE  TypeInv'
<1> USE DEF TypeInv, None
<1>1. CASE SyncIn
  <2>1. UNCHANGED <<world, outVars, cancelled, modems, default, list, found, unseen>>
    BY <1>1 DEF SyncIn, inRest, taskVars
  <2>2. PICK request \in Requests : imsi' = IF request = NoImsi THEN default ELSE request
    BY <1>1 DEF SyncIn
  <2>3. imsi' \in Imsis \cup {NoImsi}
    BY <2>2, SimsAssumption DEF DataOK
  <2>4. call = None /\ phase' = "syncing in" /\ owed' = 1
    BY <1>1, NothingOwed DEF SyncIn
  <2>5. /\ at' = None /\ quit' = FALSE /\ UNCHANGED <<completions, cbErr>>
        /\ \/ call' = "manager proxy"
           \/ call' \in {"get contexts", "connman proxy"} /\ imsi' \in DOMAIN modems'
    BY <1>1, <2>1 DEF SyncIn, GetContexts, Await
  <2>6. DataOK'
    BY <2>1, <2>3 DEF DataOK, ContextsOK, world
  <2>7. SearchOK' /\ CommandsOK'
    BY <2>1 DEF SearchOK, CommandsOK, outVars
  <2>8. CallOK'
    BY <2>4, <2>5 DEF CallOK, InCalls, TaskCalls, None
  <2>9. PlaceOK'
    BY <2>4, <2>5 DEF PlaceOK, InCalls, TaskCalls, CommandTypes, None
  <2>10. QuitOK'
    BY <2>1, <2>5 DEF QuitOK
  <2> QED BY <2>6, <2>7, <2>8, <2>9, <2>10
<1>2. CASE SyncOut
  <2>1. /\ wanted' \in Edited(Modem.settings) /\ SyncOutStep(Modem, Analyse(Modem, wanted'))
        /\ phase = "open" /\ phase' = "syncing out" /\ owed' = 1 /\ owed = 0
        /\ UNCHANGED <<world, modems, default, imsi, list, found, cancelled, unseen, failed>>
    BY <1>2 DEF SyncOut, taskVars
  <2>2. call = None /\ imsi \in DOMAIN modems
    BY <2>1, NothingOwed DEF PlaceOK
  <2>3. Modem.settings \in Settings
    BY <2>2 DEF DataOK, IsModem, ModemType, Modem
  <2>4. wanted' \in Settings
    BY <2>1, <2>3, EditedType
  <2>5. Analyse(Modem, wanted') \in SUBSET AllCommands /\ \A c \in Analyse(Modem, wanted') : c.type = "set" => c.key \in DOMAIN wanted'
    BY <2>3, <2>4, AnalyseType
  <2>6. ~quit /\ completions = 0
    BY <2>2 DEF QuitOK, CallOK, InCalls, TaskCalls, CommandTypes, None
  <2>7. failed' \in BOOLEAN
    BY <2>1 DEF CommandsOK
  <2>8. imsi' \in DOMAIN modems'
    BY <2>1, <2>2
  <2>9. DataOK' /\ SearchOK'
    BY <2>1 DEF DataOK, SearchOK, ContextsOK, world
  <2>10. CommandsOK' /\ CallOK' /\ PlaceOK' /\ QuitOK'
    BY <2>1, <2>4, <2>5, <2>6, <2>7, <2>8, SyncOutStepPlace
  <2> QED BY <2>9, <2>10
<1>3. CASE Abort
  <2>1. /\ phase = "open" /\ owed = 0 /\ phase' = "closed" /\ imsi' = NoImsi
        /\ UNCHANGED <<world, modems, default, list, found, outVars, callVars, owed, cancelled, unseen>>
    BY <1>3 DEF Abort, taskVars
  <2>2. call = None
    BY <2>1, NothingOwed
  <2>3. DataOK' /\ SearchOK' /\ CommandsOK'
    BY <2>1 DEF DataOK, SearchOK, CommandsOK, ContextsOK, world, outVars
  <2>4. CallOK' /\ QuitOK'
    BY <2>1 DEF CallOK, QuitOK, callVars
  <2>5. PlaceOK'
    BY <2>1, <2>2 DEF PlaceOK, callVars, InCalls, TaskCalls, CommandTypes, None
  <2> QED BY <2>3, <2>4, <2>5
<1>4. CASE Cancel
  <2>1. /\ cancelled' = TRUE /\ call \in CancelIn /\ quit' = (call \in InCalls \cup OutCalls)
        /\ UNCHANGED <<world, modems, default, imsi, list, found, outVars, call, at, completions, cbErr, phase, owed, unseen>>
    BY <1>4 DEF Cancel, taskVars
  <2>2. DataOK' /\ SearchOK' /\ CommandsOK'
    BY <2>1 DEF DataOK, SearchOK, CommandsOK, ContextsOK, world, outVars
  <2>3. CallOK' /\ PlaceOK'
    <3>1. CallOK'
      BY <2>1 DEF CallOK, outVars
    <3>2. PlaceOK'
      BY <2>1 DEF PlaceOK, Modem, outVars
    <3> QED BY <3>1, <3>2
  <2>4. QuitOK'
    <3>1. OutCalls = CommandTypes \cup {"new proxy"}
      BY CommandTypesAll DEF OutCalls
    <3>2. quit' = (call \in InCalls \cup OutCalls)
      BY <2>1, Zenon
    <3>3. quit' \in BOOLEAN
      BY <3>2, MembershipIsBoolean, Zenon
    <3>4. quit' => call \in CommandTypes \cup {"new proxy"} \cup InCalls
      BY <2>1, <3>1
    <3> QED BY <2>1, <3>3, <3>4 DEF QuitOK
  <2> QED BY <2>2, <2>3, <2>4
<1> QED BY <1>1, <1>2, <1>3, <1>4

LEMMA NoneLeft == ASSUME NEW S PROVE <<>> \in Seq(S)
OBVIOUS

LEMMA HeadAndTail ==
    ASSUME NEW S, NEW s \in Seq(S), s # <<>>
    PROVE  Head(s) \in S /\ Tail(s) \in Seq(S)
OBVIOUS

(* The modem after the next, or the end of the search.                      *)
LEMMA GetImsiNumbersPlace ==
    ASSUME "get contexts" \notin CancelIn, TypeInv, call \in TaskCalls, ~quit, NEW paths \in Seq(Range(Modems)), GetImsiNumbers(paths),
           UNCHANGED <<inRest, modems, default, imsi, phase, owed, unseen>>,
           DOMAIN found' \subseteq Imsis, \A i \in DOMAIN found' : found'[i] \in Range(Modems)
    PROVE  TypeInv'
<1> USE DEF TypeInv, None
<1>1. phase = "syncing in" /\ owed = 1
  BY DEF PlaceOK, CallOK, InCalls, TaskCalls
<1>2. DataOK' /\ SearchOK' /\ CommandsOK'
  BY DEF DataOK, SearchOK, CommandsOK, ContextsOK, inRest, world, outVars, GetImsiNumbers
<1>3. \/ paths = <<>> /\ call' = "modems done" /\ at' = None /\ quit' = FALSE /\ cbErr' = "none" /\ completions' = 0
      \/ paths # <<>> /\ call' = "sim proxy" /\ at' = None /\ quit' = FALSE /\ UNCHANGED <<completions, cbErr>>
  BY DEF GetImsiNumbers, FinishTask, CompleteLater, Await
<1>4. completions = 0
  BY DEF CallOK, TaskCalls
<1>5. CallOK'
  BY <1>1, <1>3, <1>4 DEF CallOK, InCalls, TaskCalls, IdleSources
<1>6. list' = paths
  BY DEF GetImsiNumbers
<1>7. PlaceOK'
  BY <1>1, <1>3, <1>6 DEF PlaceOK, InCalls, TaskCalls, CommandTypes
<1>8. QuitOK'
  BY <1>3 DEF QuitOK, inRest
<1> QED BY <1>2, <1>5, <1>7, <1>8

LEMMA NewModemType == ASSUME NEW path \in Range(Modems) PROVE IsModem(NewModem(path))
BY EmptyType DEF NewModem, IsModem, ModemType

LEMMA SimType == ASSUME sims \in SimsIn, NEW path \in Range(Modems) PROVE sims[path] \in Imsis \cup {NoImsi}
BY SimsAssumption

(* The first modem with a SIM, if any has one.                              *)
LEMMA FindDefaultType ==
    ASSUME SearchOK, FindDefault
    PROVE  default' \in DOMAIN found \cup {NoImsi} /\ (default' \notin DOMAIN found => DOMAIN found = {})
<1> DEFINE default0 == First(Modems, Range(found))
<1>1. Modems \in Seq(Range(Modems)) /\ "none" \notin Range(Modems)
  BY SimsAssumption
<1>2. default0 \in (Range(Modems) \cap Range(found)) \cup {None}
      /\ (Range(Modems) \cap Range(found) # {} => default0 \in Range(Modems) \cap Range(found))
  BY <1>1, FirstFound
<1>3. default' = IF default0 = None THEN NoImsi ELSE CHOOSE i \in DOMAIN found : found[i] = default0
  BY DEF FindDefault
<1> HIDE DEF default0
<1>4. CASE default0 = None
  <2>1. Range(Modems) \cap Range(found) = {}
    BY <1>1, <1>2, <1>4 DEF None
  <2>2. DOMAIN found = {}
    BY <2>1 DEF SearchOK, Range
  <2> QED BY <1>3, <1>4, <2>2
<1>5. CASE default0 # None
  <2>1. default0 \in Range(found)
    BY <1>2, <1>5
  <2>2. \E i \in DOMAIN found : found[i] = default0
    BY <2>1 DEF Range
  <2>3. (CHOOSE i \in DOMAIN found : found[i] = default0) \in DOMAIN found
    BY <2>2
  <2> QED BY <1>3, <1>5, <2>3
<1> QED BY <1>4, <1>5

LEMMA TypeSearch ==
    ASSUME "get contexts" \notin CancelIn, TypeInv,
           \/ ManagerProxyCreated \/ GetModemsDone \/ SimProxyCreated
           \/ GetSimPropertiesDone \/ SimPropertiesFailed \/ TaskFailed \/ TaskCancelled
    PROVE  TypeInv'
<1> USE DEF TypeInv, None
<1>1. CASE ManagerProxyCreated \/ SimProxyCreated
  <2>1. /\ call \in {"manager proxy", "sim proxy"} /\ at' = None /\ quit' = FALSE
        /\ call' \in {"get modems", "sim properties"} /\ (call' = "sim properties" => call = "sim proxy")
        /\ UNCHANGED <<completions, cbErr, taskRest, taskVars>>
    BY <1>1 DEF ManagerProxyCreated, SimProxyCreated, Replied, Await
  <2>2. DataOK' /\ SearchOK' /\ CommandsOK'
    BY <2>1 DEF DataOK, SearchOK, CommandsOK, ContextsOK, taskRest, taskVars, inRest, world, outVars
  <2>3. CallOK'
    BY <2>1 DEF CallOK, InCalls, TaskCalls, taskRest
  <2>4. PlaceOK'
    BY <2>1 DEF PlaceOK, InCalls, TaskCalls, CommandTypes, taskRest, taskVars
  <2>5. QuitOK'
    BY <2>1 DEF QuitOK, taskRest, inRest
  <2> QED BY <2>2, <2>3, <2>4, <2>5
<1>2. CASE GetModemsDone
  <2>1. call \in TaskCalls /\ ~quit /\ GetImsiNumbers(Modems) /\ UNCHANGED <<taskRest, found>>
    BY <1>2 DEF GetModemsDone, Replied, TaskCalls
  <2>2. Modems \in Seq(Range(Modems))
    BY SimsAssumption
  <2> QED BY <2>1, <2>2, GetImsiNumbersPlace DEF taskRest, SearchOK
<1>3. CASE GetSimPropertiesDone \/ SimPropertiesFailed
  <2>1. call = "sim properties" /\ ~quit /\ GetImsiNumbers(Tail(list)) /\ UNCHANGED taskRest
    BY <1>3 DEF GetSimPropertiesDone, SimPropertiesFailed, Replied
  <2>2. list \in Seq(Range(Modems)) /\ list # <<>>
    BY <2>1 DEF SearchOK, PlaceOK
  <2>3. Tail(list) \in Seq(Range(Modems)) /\ Head(list) \in Range(Modems)
    BY <2>2, HeadAndTail
  <2>4. DOMAIN found' \subseteq Imsis /\ \A i \in DOMAIN found' : found'[i] \in Range(Modems)
    <3>1. CASE found' = found
      BY <3>1 DEF SearchOK
    <3>2. ASSUME NEW i, i = sims[Head(list)], i # NoImsi, found' = (i :> Head(list)) @@ found
          PROVE  DOMAIN found' \subseteq Imsis /\ \A j \in DOMAIN found' : found'[j] \in Range(Modems)
      <4>1. i \in Imsis
        BY <2>3, <3>2, SimType DEF DataOK
      <4>2. found' = [j \in {i} \cup DOMAIN found |-> IF j = i THEN Head(list) ELSE found[j]]
        BY <3>2 DEF :>, @@
      <4> QED BY <2>3, <4>1, <4>2 DEF SearchOK
    <3>3. found' = found \/ (sims[Head(list)] # NoImsi /\ found' = (sims[Head(list)] :> Head(list)) @@ found)
      BY <1>3 DEF GetSimPropertiesDone, SimPropertiesFailed
    <3> QED BY <3>1, <3>2, <3>3
  <2>5. call \in TaskCalls
    BY <2>1 DEF TaskCalls
  <2> QED BY <2>1, <2>3, <2>4, <2>5, GetImsiNumbersPlace DEF taskRest
<1>4. CASE TaskFailed \/ TaskCancelled
  <2>1. call \in TaskCalls /\ UNCHANGED <<taskRest, taskVars>>
    BY <1>4 DEF TaskFailed, TaskCancelled, Replied
  <2>2. /\ call' = "modems done" /\ at' = None /\ quit' = FALSE /\ completions' = 0
        /\ cbErr' \in {"io", "cancelled"} /\ (cbErr' = "cancelled" => quit)
    BY <1>4 DEF TaskFailed, TaskCancelled, FinishTask, CompleteLater
  <2>3. DataOK' /\ SearchOK' /\ CommandsOK'
    BY <2>1 DEF DataOK, SearchOK, CommandsOK, ContextsOK, taskRest, taskVars, inRest, world, outVars
  <2>4. CallOK'
    BY <2>1, <2>2 DEF CallOK, InCalls, TaskCalls, taskRest, IdleSources
  <2>5. PlaceOK'
    BY <2>1, <2>2 DEF PlaceOK, InCalls, TaskCalls, CommandTypes, taskRest, taskVars
  <2>6. QuitOK'
    BY <2>1, <2>2 DEF QuitOK, taskRest, inRest
  <2> QED BY <2>3, <2>4, <2>5, <2>6
<1> QED BY <1>1, <1>2, <1>3, <1>4

LEMMA TypeModemsDone == ASSUME "get contexts" \notin CancelIn, TypeInv, ModemsDone PROVE TypeInv'
<1> USE DEF TypeInv, None
<1>1. /\ call = "modems done" /\ list' = <<>> /\ found' = Empty
      /\ UNCHANGED <<inRest, phase, owed>>
  BY DEF ModemsDone
<1>2. phase = "syncing in" /\ owed = 1 /\ completions = 0
  BY <1>1 DEF PlaceOK, CallOK
<1>3. SearchOK' /\ CommandsOK'
  <2>1. SearchOK'
    <3>1. list' = <<>> /\ found' = Empty
      BY <1>1
    <3>2. DOMAIN found' = {}
      BY <3>1, EmptyType
    <3>3. list' \in Seq(Range(Modems))
      BY <3>1, NoneLeft, Zenon
    <3> QED BY <3>2, <3>3 DEF SearchOK
  <2>2. CommandsOK'
    BY <1>1 DEF CommandsOK, inRest, outVars
  <2> QED BY <2>1, <2>2
<1>4. CASE /\ cbErr # "none"
           /\ CompleteLater("complete sync in", cbErr, 1)
           /\ UNCHANGED <<modems, default, imsi, unseen>>
  <2>1. DataOK'
    BY <1>1, <1>4 DEF DataOK, ContextsOK, inRest, world
  <2>2. CallOK'
    BY <1>1, <1>2, <1>4 DEF CallOK, CompleteLater, IdleSources
  <2>3. PlaceOK'
    BY <1>1, <1>2, <1>4 DEF PlaceOK, CompleteLater, InCalls, TaskCalls, CommandTypes
  <2>4. QuitOK'
    BY <1>1, <1>4 DEF QuitOK, CompleteLater, inRest
  <2> QED BY <1>3, <2>1, <2>2, <2>3, <2>4
<1>5. CASE /\ cbErr = "none"
           /\ modems' = [i \in DOMAIN found |-> IF i \in DOMAIN modems THEN modems[i] ELSE NewModem(found[i])]
           /\ unseen' = unseen \cap DOMAIN found
           /\ FindDefault
           /\ imsi' = IF imsi = NoImsi THEN default' ELSE imsi
           /\ IF imsi' \in DOMAIN found THEN GetContexts(modems'[imsi'])
              ELSE CompleteLater("complete sync in", "not_found", 1)
  <2>1. default' \in DOMAIN found \cup {NoImsi}
    BY <1>5, FindDefaultType
  <2>2. DOMAIN modems' = DOMAIN found
    BY <1>5
  <2>3. ASSUME NEW i \in DOMAIN modems' PROVE IsModem(modems'[i])
    BY <1>5, <2>2, <2>3, NewModemType DEF DataOK, SearchOK
  <2>4. imsi' \in Imsis \cup {NoImsi}
    BY <1>5, <2>1 DEF DataOK, SearchOK
  <2>5. DataOK'
    BY <1>1, <1>5, <2>1, <2>2, <2>3, <2>4 DEF DataOK, SearchOK, ContextsOK, inRest, world
  <2>6. /\ at' = None /\ quit' = FALSE
        /\ \/ call' \in {"get contexts", "connman proxy"} /\ imsi' \in DOMAIN modems' /\ UNCHANGED <<completions, cbErr>>
           \/ call' = "complete sync in" /\ cbErr' = "not_found" /\ completions' = 1
    BY <1>5, <2>2 DEF GetContexts, Await, CompleteLater
  <2>7. CallOK'
    BY <1>1, <1>2, <2>6 DEF CallOK, InCalls, TaskCalls, IdleSources
  <2>8. PlaceOK'
    BY <1>1, <1>2, <2>6 DEF PlaceOK, InCalls, TaskCalls, CommandTypes
  <2>9. QuitOK'
    BY <1>1, <1>5, <2>6 DEF QuitOK, inRest
  <2> QED BY <1>3, <2>5, <2>7, <2>8, <2>9
<1> QED BY <1>4, <1>5 DEF ModemsDone

(* The proxy of the next context, or the end of them.                       *)
LEMMA GetProxiesPlace ==
    ASSUME TypeInv, call \in InCalls, ~quit, imsi \in DOMAIN modems', IsModem(modems'[imsi]), GetProxies(modems'[imsi]),
           UNCHANGED <<imsi, phase, owed, cancelled>>
    PROVE  /\ CallOK' /\ PlaceOK' /\ QuitOK'
           /\ call' \in {"context proxy", "complete sync in"}
<1> USE DEF TypeInv, None
<1>1. phase = "syncing in" /\ owed = 1 /\ completions = 0
  BY DEF PlaceOK, CallOK, InCalls, TaskCalls
<1>2. CASE modems'[imsi].knows = modems'[imsi].proxies
  <2>1. call' = "complete sync in" /\ at' = None /\ quit' = FALSE /\ cbErr' = "none" /\ completions' = 1
    BY <1>2 DEF GetProxies, CompleteLater
  <2>2. CallOK'
    BY <1>1, <2>1 DEF CallOK, IdleSources
  <2>3. PlaceOK'
    BY <1>1, <2>1 DEF PlaceOK, InCalls, TaskCalls, CommandTypes
  <2>4. QuitOK'
    BY <2>1 DEF QuitOK
  <2> QED BY <2>1, <2>2, <2>3, <2>4
<1>3. CASE modems'[imsi].knows # modems'[imsi].proxies
  <2>1. PICK p \in modems'[imsi].knows \ modems'[imsi].proxies : Await("context proxy", p)
    BY <1>3 DEF GetProxies
  <2>2. call' = "context proxy" /\ at' = p /\ quit' = FALSE /\ UNCHANGED <<completions, cbErr>>
    BY <2>1 DEF Await
  <2>3. p \in Paths
    BY DEF IsModem, ModemType
  <2>4. CallOK'
    BY <1>1, <2>2, <2>3 DEF CallOK, InCalls
  <2>5. at' \in Modem'.knows
    BY <2>1, <2>2 DEF Modem
  <2>6. PlaceOK'
    BY <1>1, <2>2, <2>5 DEF PlaceOK, InCalls, TaskCalls, CommandTypes
  <2>7. QuitOK'
    BY <2>2 DEF QuitOK
  <2> QED BY <2>2, <2>4, <2>6, <2>7
<1> QED BY <1>2, <1>3

LEMMA TypeRead ==
    ASSUME "get contexts" \notin CancelIn, TypeInv,
           ConnmanProxyCreated \/ GetContextsDone \/ ContextProxyCreated \/ SyncInFailed \/ SyncInCancelled \/ CompleteSyncIn
    PROVE  TypeInv'
<1> USE DEF TypeInv, None
<1>1. ASSUME UNCHANGED <<inRest, taskVars>> PROVE SearchOK' /\ CommandsOK'
  BY <1>1 DEF SearchOK, CommandsOK, inRest, taskVars, outVars
<1>2. CASE ConnmanProxyCreated
  <2>1. /\ call = "connman proxy" /\ modems' = [modems EXCEPT ![imsi].cmProxy = TRUE]
        /\ call' = "get contexts" /\ at' = None /\ quit' = FALSE
        /\ UNCHANGED <<stepRest, unseen, completions, cbErr>>
    BY <1>2 DEF ConnmanProxyCreated, Replied, Await
  <2>2. imsi \in DOMAIN modems
    BY <2>1 DEF PlaceOK, InCalls, TaskCalls
  <2>3. modems'[imsi] = [modems[imsi] EXCEPT !.cmProxy = TRUE] /\ DOMAIN modems' = DOMAIN modems
        /\ \A i \in DOMAIN modems \ {imsi} : modems'[i] = modems[i]
    BY <2>1, <2>2
  <2>4. IsModem(modems'[imsi])
    BY <2>2, <2>3 DEF DataOK, IsModem, ModemType
  <2>5. DataOK'
    <3>1. ContextsOK'
      BY <2>1 DEF DataOK, ContextsOK, stepRest, inRest, world
    <3> QED BY <2>1, <2>2, <2>3, <2>4, <3>1, ModemUpdated DEF stepRest, inRest, world
  <2>6. CallOK'
    BY <2>1 DEF CallOK, InCalls, TaskCalls, stepRest
  <2>7. PlaceOK'
    BY <2>1, <2>2, <2>3 DEF PlaceOK, InCalls, TaskCalls, CommandTypes, stepRest
  <2>8. QuitOK'
    BY <2>1 DEF QuitOK, stepRest, inRest
  <2> QED BY <1>1, <2>1, <2>5, <2>6, <2>7, <2>8 DEF stepRest
<1>3. CASE GetContextsDone
  <2>1. /\ call = "get contexts" /\ ~quit /\ modems' = [modems EXCEPT ![imsi] = UpdateContexts(modems[imsi])]
        /\ GetProxies(modems'[imsi]) /\ UNCHANGED <<stepRest, unseen>>
    BY <1>3 DEF GetContextsDone, Replied
  <2>2. imsi \in DOMAIN modems
    BY <2>1 DEF PlaceOK, InCalls, TaskCalls
  <2>3. modems'[imsi] = UpdateContexts(modems[imsi]) /\ DOMAIN modems' = DOMAIN modems
        /\ \A i \in DOMAIN modems \ {imsi} : modems'[i] = modems[i]
    BY <2>1, <2>2
  <2>4. IsModem(modems'[imsi])
    BY <2>2, <2>3, UpdateContextsType DEF DataOK
  <2>5. DataOK'
    <3>1. ContextsOK'
      BY <2>1 DEF DataOK, ContextsOK, stepRest, inRest, world
    <3> QED BY <2>1, <2>2, <2>3, <2>4, <3>1, ModemUpdated DEF stepRest, inRest, world
  <2>6. CallOK' /\ PlaceOK' /\ QuitOK'
    <3>1. call \in InCalls /\ imsi \in DOMAIN modems' /\ UNCHANGED <<imsi, phase, owed, cancelled>>
      BY <2>1, <2>2, <2>3 DEF InCalls, stepRest, inRest
    <3> QED BY <2>1, <2>4, <3>1, GetProxiesPlace
  <2> QED BY <1>1, <2>1, <2>5, <2>6 DEF stepRest
<1>4. CASE ContextProxyCreated
  <2>1. /\ call = "context proxy" /\ ~quit /\ modems' = [modems EXCEPT ![imsi].proxies = modems[imsi].proxies \cup {at}]
        /\ GetProxies(modems'[imsi]) /\ UNCHANGED <<stepRest, unseen>>
    BY <1>4 DEF ContextProxyCreated, Replied
  <2>2. imsi \in DOMAIN modems /\ at \in modems[imsi].knows
    BY <2>1 DEF PlaceOK, InCalls, TaskCalls, Modem
  <2>3. modems'[imsi] = [modems[imsi] EXCEPT !.proxies = modems[imsi].proxies \cup {at}] /\ DOMAIN modems' = DOMAIN modems
        /\ \A i \in DOMAIN modems \ {imsi} : modems'[i] = modems[i]
    BY <2>1, <2>2
  <2>4. IsModem(modems'[imsi])
    <3>1. IsModem(modems[imsi])
      BY <2>2 DEF DataOK
    <3>2. at \in Paths
      BY <2>2, <3>1 DEF IsModem, ModemType
    <3>3. modems'[imsi].proxies = modems[imsi].proxies \cup {at} /\ modems'[imsi].knows = modems[imsi].knows
      BY <2>3, <3>1 DEF IsModem, ModemType
    <3>4. modems'[imsi] \in ModemType
      <4> DEFINE m == modems[imsi]
                 ps == m.proxies \cup {at}
      <4>1. m \in ModemType /\ ps \in SUBSET Paths
        BY <3>1, <3>2 DEF IsModem, ModemType
      <4>2. modems'[imsi] = [m EXCEPT !.proxies = ps]
        BY <2>3
      <4> HIDE DEF m, ps
      <4> QED BY <4>1, <4>2 DEF ModemType
    <3> QED BY <2>2, <3>1, <3>3, <3>4 DEF IsModem
  <2>5. DataOK'
    <3>1. ContextsOK'
      BY <2>1 DEF DataOK, ContextsOK, stepRest, inRest, world
    <3> QED BY <2>1, <2>2, <2>3, <2>4, <3>1, ModemUpdated DEF stepRest, inRest, world
  <2>6. CallOK' /\ PlaceOK' /\ QuitOK'
    <3>1. call \in InCalls /\ imsi \in DOMAIN modems' /\ UNCHANGED <<imsi, phase, owed, cancelled>>
      BY <2>1, <2>2, <2>3 DEF InCalls, stepRest, inRest
    <3> QED BY <2>1, <2>4, <3>1, GetProxiesPlace
  <2> QED BY <1>1, <2>1, <2>5, <2>6 DEF stepRest
<1>5. CASE SyncInFailed \/ SyncInCancelled
  <2>1. call \in {"connman proxy", "get contexts", "context proxy"} /\ UNCHANGED <<stepRest, modems, unseen>>
    BY <1>5 DEF SyncInFailed, SyncInCancelled, Replied, InCalls, TaskCalls
  <2>2. \/ /\ call' = "complete sync in" /\ at' = None /\ quit' = FALSE /\ completions' = 1
           /\ cbErr' \in {"io", "cancelled"} /\ (cbErr' = "cancelled" => quit)
        \/ call' = "forgotten" /\ ~quit /\ UNCHANGED <<at, quit, completions, cbErr>>
    <3>1. CASE SyncInFailed
      BY <3>1 DEF SyncInFailed, Replied, CompleteLater, Forget
    <3>2. CASE SyncInCancelled
      <4>1. call # "get contexts" /\ quit
        BY <3>2 DEF SyncInCancelled, QuitOK
      <4> QED BY <3>2, <4>1 DEF SyncInCancelled, CompleteLater
    <3> QED BY <1>5, <3>1, <3>2
  <2>3. DataOK'
    BY <2>1 DEF DataOK, ContextsOK, stepRest, inRest, world
  <2>4. CallOK'
    BY <2>1, <2>2 DEF CallOK, InCalls, TaskCalls, stepRest, IdleSources
  <2>5. PlaceOK'
    BY <2>1, <2>2 DEF PlaceOK, InCalls, TaskCalls, CommandTypes, stepRest
  <2>6. QuitOK'
    <3>1. quit' = FALSE
      BY <2>2 DEF QuitOK
    <3>2. cbErr' = "cancelled" => cancelled /\ UNCHANGED cancelled
      BY <2>1, <2>2 DEF QuitOK, stepRest, inRest
    <3> QED BY <3>1, <3>2 DEF QuitOK
  <2> QED BY <1>1, <2>1, <2>3, <2>4, <2>5, <2>6 DEF stepRest
<1>6. CASE CompleteSyncIn
  <2>1. /\ call = "complete sync in" /\ UNCHANGED <<inRest, modems, default, imsi, taskVars, at, quit, unseen>>
        /\ completions' = completions - 1 /\ owed' = owed - 1
        /\ call' = (IF completions = 1 THEN None ELSE call) /\ cbErr' = (IF completions = 1 THEN "none" ELSE cbErr)
        /\ phase' = IF cbErr = "none" THEN "open" ELSE "closed"
    BY <1>6 DEF CompleteSyncIn, inRest
  <2>2. completions = 1 /\ owed = 1 /\ (cbErr = "none" => imsi \in DOMAIN modems)
    BY <2>1 DEF CallOK, PlaceOK
  <2>3. ~quit
    BY <2>1 DEF QuitOK, InCalls, TaskCalls, CommandTypes
  <2>4. DataOK'
    BY <2>1 DEF DataOK, ContextsOK, inRest, world
  <2>5. CallOK'
    <3>1. call' = None /\ cbErr' = "none" /\ at' = at
      BY <2>1, <2>2
    <3>2. owed' = 0 /\ completions' = 0
      <4>1. owed' = owed - 1 /\ completions' = completions - 1
        BY <2>1
      <4>2. owed = 1 /\ completions = 1
        BY <2>2
      <4> QED BY <4>1, <4>2, OneLess, Zenon
    <3> QED BY <3>1, <3>2 DEF CallOK
  <2>6. PlaceOK'
    BY <2>1, <2>2 DEF PlaceOK, InCalls, TaskCalls, CommandTypes
  <2>7. QuitOK'
    BY <2>1, <2>2, <2>3 DEF QuitOK
  <2> QED BY <1>1, <2>1, <2>4, <2>5, <2>6, <2>7
<1> QED BY <1>2, <1>3, <1>4, <1>5, <1>6

LEMMA OutCallsAre == OutCalls = CommandTypes \cup {"new proxy"}
BY CommandTypesAll DEF OutCalls

LEMMA UnheardType == ASSUME TypeInv, Unheard PROVE ContextsOK'
<1>1. CASE UNCHANGED contexts
  BY <1>1 DEF TypeInv, DataOK, ContextsOK
<1>2. CASE call \in Range(Commands) /\ CanApply /\ contexts' = Applied
  <2>1. call \in CommandTypes
    BY <1>2, CommandTypesAll
  <2>2. ContextsOK /\ wanted \in Settings /\ (call = "set" => at \in DOMAIN wanted)
    BY DEF TypeInv, DataOK, CommandsOK, PlaceOK
  <2>3. DOMAIN Applied \subseteq Paths /\ \A p \in DOMAIN Applied : Applied[p] \in Values
    BY <1>2, <2>1, <2>2, AppliedType
  <2> QED BY <1>2, <2>3 DEF ContextsOK
<1> QED BY <1>1, <1>2 DEF Unheard

(* What all steps of sync_out that go on to the next command have in common. *)
LEMMA NextCommandPlace ==
    ASSUME TypeInv, call \in CommandTypes \cup {"new proxy"}, ~quit, NEW m, SyncOutStep(m, cmds),
           UNCHANGED outRest, DOMAIN modems' = DOMAIN modems, failed' \in BOOLEAN
    PROVE  SearchOK' /\ CommandsOK' /\ CallOK' /\ PlaceOK' /\ QuitOK' /\ imsi \in DOMAIN modems
<1> USE DEF TypeInv, None
<1>1. phase = "syncing out" /\ owed = 1 /\ completions = 0 /\ imsi \in DOMAIN modems
  BY DEF PlaceOK, CallOK, CommandTypes
<1>2. cmds \in SUBSET AllCommands /\ \A c \in cmds : c.type = "set" => c.key \in DOMAIN wanted
  BY DEF CommandsOK
<1>3. UNCHANGED <<phase, owed, cancelled, imsi, wanted>>
  BY DEF outRest, apiVars
<1>4. wanted' \in Settings /\ \A c \in cmds : c.type = "set" => c.key \in DOMAIN wanted'
  BY <1>2, <1>3 DEF CommandsOK
<1>5. CommandsOK' /\ CallOK' /\ PlaceOK' /\ QuitOK'
  BY <1>1, <1>2, <1>3, <1>4, SyncOutStepPlace
<1>6. SearchOK'
  BY DEF SearchOK, outRest, taskVars
<1> QED BY <1>1, <1>5, <1>6

LEMMA CommandApplied ==
    ASSUME TypeInv, call \in CommandTypes, CanApply, contexts' = Applied
    PROVE  ContextsOK' /\ CommandPath \in Paths
<1>1. ContextsOK /\ wanted \in Settings /\ (call = "set" => at \in DOMAIN wanted)
  BY DEF TypeInv, DataOK, CommandsOK, PlaceOK
<1>2. DOMAIN Applied \subseteq Paths /\ (\A p \in DOMAIN Applied : Applied[p] \in Values) /\ CommandPath \in Paths
  BY <1>1, AppliedType
<1> QED BY <1>2 DEF ContextsOK

LEMMA TypeWritten ==
    ASSUME TypeInv, CommandDone \/ ContextAdded \/ NewProxyCreated \/ CommandFailed \/ SyncOutCancelled
    PROVE  TypeInv'
<1> USE DEF TypeInv, None
<1>1. failed \in BOOLEAN
  BY Zenon DEF CommandsOK
<1>2. CASE CommandDone
  <2>1. /\ call \in {"delete", "delete mms", "set", "clear"} /\ ~quit
        /\ CanApply /\ contexts' = Applied /\ SyncOutStep(Modem, cmds) /\ UNCHANGED <<outRest, modems, failed>>
    BY <1>2 DEF CommandDone, Replied
  <2>2. call \in CommandTypes
    BY <2>1 DEF CommandTypes
  <2>3. SearchOK' /\ CommandsOK' /\ CallOK' /\ PlaceOK' /\ QuitOK'
    <3>1. failed' \in BOOLEAN
      BY <1>1, <2>1, Zenon
    <3> QED BY <2>1, <2>2, <3>1, NextCommandPlace
  <2>4. ContextsOK'
    BY <2>1, <2>2, CommandApplied
  <2>5. DataOK'
    BY <2>1, <2>4 DEF DataOK, outRest
  <2> QED BY <2>3, <2>5
<1>3. CASE ContextAdded
  <2>1. /\ call \in {"add", "add mms"} /\ ~quit /\ CanApply /\ contexts' = Applied
        /\ modems' = (IF call = "add mms" THEN [modems EXCEPT ![imsi].mms = CommandPath] ELSE modems)
        /\ call' = "new proxy" /\ at' = CommandPath /\ quit' = FALSE
        /\ UNCHANGED <<completions, cbErr, outRest, cmds, failed>>
    BY <1>3 DEF ContextAdded, Replied, Await
  <2>2. call \in CommandTypes
    BY <2>1 DEF CommandTypes
  <2>3. ContextsOK' /\ CommandPath \in Paths
    BY <2>1, <2>2, CommandApplied
  <2>4. imsi \in DOMAIN modems /\ phase = "syncing out"
    BY <2>2 DEF PlaceOK
  <2>5. DataOK'
    <3>1. CASE call = "add"
      BY <2>1, <2>3, <3>1 DEF DataOK, outRest
    <3>2. CASE call = "add mms"
      <4>1. CommandPath = First(MmsPaths, {p \in Mms \ DOMAIN contexts : Here(p)})
        BY <3>2 DEF CommandPath
      <4>2. CommandPath \in Mms
        BY <2>3, <4>1, MmsFound, SimsAssumption
      <4> DEFINE m == modems[imsi]
                 q == CommandPath
      <4>3. modems'[imsi] = [m EXCEPT !.mms = q] /\ DOMAIN modems' = DOMAIN modems
            /\ \A i \in DOMAIN modems \ {imsi} : modems'[i] = modems[i]
        BY <2>1, <2>4, <3>2
      <4>4. IsModem(m)
        BY <2>4 DEF DataOK
      <4> HIDE DEF m, q
      <4>5. q \in Mms
        BY <4>2 DEF q
      <4>6. IsModem(modems'[imsi])
        BY <4>3, <4>4, <4>5 DEF IsModem, ModemType
      <4> QED BY <2>1, <2>3, <2>4, <4>3, <4>6, ModemUpdated DEF outRest
    <3> QED BY <2>1, <3>1, <3>2
  <2>6. SearchOK' /\ CommandsOK'
    BY <2>1 DEF SearchOK, CommandsOK, outRest, taskVars
  <2>7. CallOK'
    BY <2>1, <2>2, <2>3 DEF CallOK, CommandTypes, outRest, apiVars
  <2>8. PlaceOK'
    <3>1. DOMAIN modems' = DOMAIN modems
      BY <2>1
    <3> QED BY <2>1, <2>3, <2>4, <3>1 DEF PlaceOK, InCalls, TaskCalls, CommandTypes, outRest, apiVars
  <2>9. QuitOK'
    BY <2>1 DEF QuitOK, outRest, apiVars
  <2> QED BY <2>5, <2>6, <2>7, <2>8, <2>9
<1>4. CASE NewProxyCreated
  <2>1. /\ call = "new proxy" /\ ~quit
        /\ modems' = [modems EXCEPT ![imsi].knows = @ \cup {at}, ![imsi].proxies = @ \cup {at}]
        /\ SyncOutStep(modems'[imsi], cmds) /\ UNCHANGED <<outRest, contexts, failed>>
    BY <1>4 DEF NewProxyCreated, Replied
  <2>2. imsi \in DOMAIN modems /\ at \in Paths
    BY <2>1 DEF PlaceOK
  <2> DEFINE m == modems[imsi]
             ks == m.knows \cup {at}
             ps == m.proxies \cup {at}
  <2>3. IsModem(m)
    BY <2>2 DEF DataOK
  <2>4. modems'[imsi] = [m EXCEPT !.knows = ks, !.proxies = ps] /\ DOMAIN modems' = DOMAIN modems
        /\ \A i \in DOMAIN modems \ {imsi} : modems'[i] = modems[i]
    BY <2>1, <2>2
  <2>5. ks \in SUBSET Paths /\ ps \in SUBSET Paths /\ ps \subseteq ks
    BY <2>2, <2>3 DEF IsModem, ModemType
  <2>6. IsModem(modems'[imsi])
    <3> HIDE DEF m, ks, ps
    <3> QED BY <2>3, <2>4, <2>5 DEF IsModem, ModemType
  <2>7. DataOK'
    <3>1. ContextsOK'
      BY <2>1 DEF DataOK, ContextsOK
    <3> QED BY <2>1, <2>2, <2>4, <2>6, <3>1, ModemUpdated DEF outRest
  <2>8. SearchOK' /\ CommandsOK' /\ CallOK' /\ PlaceOK' /\ QuitOK'
    <3>1. failed' \in BOOLEAN
      BY <1>1, <2>1, Zenon
    <3> QED BY <2>1, <2>4, <3>1, NextCommandPlace
  <2> QED BY <2>7, <2>8
<1>5. CASE CommandFailed
  <2>1. /\ call \in OutCalls /\ ~quit /\ Unheard /\ failed' = (failed \/ call = "new proxy" \/ CanApply)
        /\ SyncOutStep(Modem, cmds) /\ UNCHANGED <<outRest, modems>>
    BY <1>5 DEF CommandFailed
  <2>2. DataOK'
    <3>1. ContextsOK'
      BY <2>1, UnheardType
    <3> QED BY <2>1, <3>1 DEF DataOK, outRest
  <2>3. SearchOK' /\ CommandsOK' /\ CallOK' /\ PlaceOK' /\ QuitOK'
    <3>1. failed' \in BOOLEAN
      BY <2>1
    <3> QED BY <2>1, <3>1, OutCallsAre, NextCommandPlace
  <2> QED BY <2>2, <2>3
<1>6. CASE SyncOutCancelled
  <2>1. /\ call \in OutCalls /\ quit /\ Unheard
        /\ call' = "complete sync out" /\ at' = None /\ quit' = FALSE /\ cbErr' = "cancelled" /\ completions' = 1
        /\ UNCHANGED <<outRest, modems, cmds, failed>>
    BY <1>6 DEF SyncOutCancelled, CompleteLater
  <2>2. DataOK'
    <3>1. ContextsOK'
      BY <2>1, UnheardType
    <3> QED BY <2>1, <3>1 DEF DataOK, outRest
  <2>3. SearchOK' /\ CommandsOK'
    BY <2>1 DEF SearchOK, CommandsOK, outRest, taskVars
  <2>4. call \in CommandTypes \cup {"new proxy"}
    BY <2>1, OutCallsAre
  <2>5. CallOK'
    BY <2>1, <2>4 DEF CallOK, CommandTypes, IdleSources, outRest, apiVars
  <2>6. PlaceOK'
    BY <2>1, <2>4 DEF PlaceOK, InCalls, TaskCalls, CommandTypes, outRest, apiVars
  <2>7. QuitOK'
    BY <2>1 DEF QuitOK, outRest, apiVars
  <2> QED BY <2>2, <2>3, <2>5, <2>6, <2>7
<1> QED BY <1>2, <1>3, <1>4, <1>5, <1>6

LEMMA TypeCompleteSyncOut == ASSUME TypeInv, CompleteSyncOut PROVE TypeInv'
<1> USE DEF TypeInv, None
<1>1. /\ call = "complete sync out" /\ call' = None /\ completions' = 0
      /\ modems' = [modems EXCEPT ![imsi].settings = Empty, ![imsi].mms = None]
      /\ imsi' = NoImsi /\ cmds' = {} /\ wanted' = Empty /\ failed' = FALSE
      /\ owed' = owed - 1 /\ cbErr' = "none" /\ phase' = "closed" /\ unseen' = unseen \ {imsi}
      /\ UNCHANGED <<world, default, list, found, at, quit, cancelled>>
  BY DEF CompleteSyncOut, ClearModem, taskVars
<1>2. owed = 1 /\ imsi \in DOMAIN modems
  BY <1>1 DEF CallOK, PlaceOK
<1>3. ~quit
  BY <1>1 DEF QuitOK, InCalls, TaskCalls, CommandTypes
<1> DEFINE m == modems[imsi]
<1>4. IsModem(m)
  BY <1>2 DEF DataOK
<1>5. modems'[imsi] = [m EXCEPT !.settings = Empty, !.mms = None] /\ DOMAIN modems' = DOMAIN modems
      /\ \A i \in DOMAIN modems \ {imsi} : modems'[i] = modems[i]
  BY <1>1, <1>2
<1>6. IsModem(modems'[imsi])
  <2> HIDE DEF m
  <2> QED BY <1>4, <1>5, EmptyType DEF IsModem, ModemType
<1>7. DataOK'
  BY <1>1, <1>5, <1>6 DEF DataOK, ContextsOK, world
<1>8. SearchOK'
  BY <1>1 DEF SearchOK
<1>9. CommandsOK'
  <2>1. failed' \in BOOLEAN
    BY <1>1, Zenon
  <2> QED BY <1>1, <2>1, EmptyType DEF CommandsOK
<1>10. CallOK'
  <2>1. owed' = 0
    BY <1>1, <1>2, OneLess, Zenon
  <2> QED BY <1>1, <2>1 DEF CallOK
<1>11. PlaceOK'
  BY <1>1 DEF PlaceOK, InCalls, TaskCalls, CommandTypes
<1>12. QuitOK'
  BY <1>1, <1>3 DEF QuitOK
<1> QED BY <1>7, <1>8, <1>9, <1>10, <1>11, <1>12

LEMMA TypeElse == ASSUME TypeInv, OthersChange \/ SwapSims \/ Restart \/ UNCHANGED vars PROVE TypeInv'
<1> USE DEF TypeInv, None
<1>1. CASE OthersChange \/ SwapSims
  <2>1. UNCHANGED otherRest
    BY <1>1 DEF OthersChange, SwapSims
  <2>2. ContextsOK' /\ sims' \in SimsIn
    <3>1. CASE SwapSims
      BY <3>1 DEF SwapSims, DataOK, ContextsOK
    <3>2. CASE OthersChange
      <4>1. PICK p \in Paths :
               \/ /\ p \in DOMAIN contexts
                  /\ contexts' = [q \in DOMAIN contexts \ {p} |-> contexts[q]]
               \/ /\ p \in DOMAIN contexts \cup OthersMake
                  /\ contexts' = (p :> Theirs) @@ contexts
        BY <3>2 DEF OthersChange
      <4>2. CASE contexts' = [q \in DOMAIN contexts \ {p} |-> contexts[q]]
        BY <3>2, <4>2 DEF DataOK, ContextsOK, OthersChange
      <4>3. CASE contexts' = (p :> Theirs) @@ contexts
        <5>1. contexts' = [q \in {p} \cup DOMAIN contexts |-> IF q = p THEN Theirs ELSE contexts[q]]
          BY <4>3 DEF :>, @@
        <5>2. Theirs \in Values
          BY DEF Values
        <5> QED BY <3>2, <5>1, <5>2 DEF DataOK, ContextsOK, OthersChange
      <4> QED BY <4>1, <4>2, <4>3
    <3> QED BY <1>1, <3>1, <3>2
  <2>3. unseen' \subseteq DOMAIN modems
    BY <1>1 DEF OthersChange, SwapSims, Watched, DataOK
  <2>4. DataOK'
    BY <2>1, <2>2, <2>3 DEF DataOK, otherRest
  <2>5. SearchOK' /\ CommandsOK'
    BY <2>1 DEF SearchOK, CommandsOK, otherRest, taskVars, outVars
  <2>6. CallOK' /\ PlaceOK' /\ QuitOK'
    <3>1. UNCHANGED <<call, at, quit, completions, cbErr, phase, owed, cancelled, modems, imsi, list, wanted>>
      BY <2>1 DEF otherRest, taskVars, outVars, callVars, apiVars
    <3>2. CallOK'
      BY <3>1 DEF CallOK
    <3>3. PlaceOK'
      BY <3>1 DEF PlaceOK, Modem
    <3>4. QuitOK'
      BY <3>1, Zenon DEF QuitOK
    <3> QED BY <3>2, <3>3, <3>4
  <2> QED BY <2>4, <2>5, <2>6
<1>2. CASE Restart
  <2>1. /\ sims' = sims /\ modems' = Empty /\ default' = NoImsi /\ imsi' = NoImsi
        /\ list' = <<>> /\ found' = Empty
        /\ cmds' = {} /\ wanted' = Empty /\ failed' = FALSE
        /\ call' = None /\ at' = None /\ quit' = FALSE /\ completions' = 0 /\ cbErr' = "none"
        /\ phase' = "closed" /\ owed' = 0 /\ cancelled' = FALSE
        /\ unseen' = {}
    BY <1>2 DEF Restart
  <2>2. ContextsOK'
    BY <1>2, UnheardType DEF Restart
  <2>3. DOMAIN modems' = {} /\ DOMAIN found' = {}
    BY <2>1, EmptyType
  <2>4. DataOK'
    BY <2>1, <2>2, <2>3 DEF DataOK
  <2>5. SearchOK'
    <3>1. list' \in Seq(Range(Modems))
      BY <2>1, NoneLeft, Zenon
    <3> QED BY <2>3, <3>1 DEF SearchOK
  <2>6. CommandsOK'
    <3>1. failed' \in BOOLEAN
      BY <2>1, Zenon
    <3> QED BY <2>1, <3>1, EmptyType DEF CommandsOK
  <2>7. CallOK'
    BY <2>1 DEF CallOK
  <2>8. PlaceOK'
    BY <2>1 DEF PlaceOK, InCalls, TaskCalls, CommandTypes
  <2>9. QuitOK'
    BY <2>1 DEF QuitOK
  <2> QED BY <2>4, <2>5, <2>6, <2>7, <2>8, <2>9
<1>3. CASE UNCHANGED vars
  <2>1. DataOK' /\ SearchOK' /\ CommandsOK'
    BY <1>3 DEF DataOK, SearchOK, CommandsOK, ContextsOK, vars, world, taskVars, outVars
  <2>2. CallOK' /\ PlaceOK' /\ QuitOK'
    <3>1. UNCHANGED <<call, at, quit, completions, cbErr, phase, owed, cancelled, modems, imsi, list, wanted>>
      BY <1>3 DEF vars, taskVars, outVars, callVars, apiVars
    <3>2. CallOK'
      BY <3>1 DEF CallOK
    <3>3. PlaceOK'
      BY <3>1 DEF PlaceOK, Modem
    <3>4. QuitOK'
      BY <3>1, Zenon DEF QuitOK
    <3> QED BY <3>2, <3>3, <3>4
  <2> QED BY <2>1, <2>2
<1> QED BY <1>1, <1>2, <1>3

LEMMA TypeNext == ASSUME "get contexts" \notin CancelIn, TypeInv, [Next]_vars PROVE TypeInv'
BY TypeStart, TypeSearch, TypeModemsDone, TypeRead, TypeWritten, TypeCompleteSyncOut, TypeElse DEF Next, Chain, Local

LEMMA TypeInvariant == ASSUME "get contexts" \notin CancelIn PROVE Spec => []TypeInv
<1>1. Init => TypeInv
  BY TypeInit
<1>2. TypeInv /\ [Next]_vars => TypeInv'
  BY TypeNext
<1> QED BY <1>1, <1>2, PTL DEF Spec

(* What the plugin keeps and what it asks of oFono is always of its kind:   *)
(* SIMs that are known and modems that exist, contexts with the values that *)
(* either side knows, commands about contexts of the right sort; and there  *)
(* is a modem to work on while a session is open.                           *)
THEOREM OfonoTypes == ASSUME "get contexts" \notin CancelIn PROVE Spec => []TypeOK
<1>1. TypeInv => TypeOK
  BY TypesOK
<1> QED BY <1>1, TypeInvariant, PTL

-----------------------------------------------------------------------------
(* Each operation that provman asks for is answered, whichever call fails   *)
(* or is cancelled, no more than once, and by "cancelled" only if provman   *)
(* has asked for that: the safety half of the property Answers.  A          *)
(* GetContexts that is cancelled is completed by two idle sources           *)
(* (ofono_plugin_sync_in_cancel), so it is not among those that may be.     *)
THEOREM OfonoAnswersOnce ==
    ASSUME "get contexts" \notin CancelIn
    PROVE  Spec => Contract!Init /\ [][Contract!Next]_(Contract!vars)
<1>1. Init => Contract!Init
  BY DEF Init, Contract!Init
<1>2. ASSUME TypeInv, [Next]_vars PROVE [Contract!Next]_(Contract!vars)
  <2> USE <1>2 DEF TypeInv
  <2>1. CASE SyncIn
    BY <2>1 DEF SyncIn, inRest, Contract!Next, Contract!SyncIn, Contract!Ask
  <2>2. CASE SyncOut
    BY <2>2 DEF SyncOut, Contract!Next, Contract!SyncOut, Contract!Ask
  <2>3. CASE Abort
    BY <2>3 DEF Abort, Contract!Next, Contract!Abort
  <2>4. CASE Cancel
    BY <2>4 DEF Cancel, Contract!Next, Contract!Cancel
  <2>5. CASE Restart
    BY <2>5 DEF Restart, Contract!Next, Contract!Restart
  <2>6. CASE Chain \/ TaskCancelled \/ ModemsDone \/ SyncInCancelled \/ SyncOutCancelled
    <3>1. UNCHANGED <<phase, owed, cancelled, result>>
      BY <2>6 DEF Chain, ManagerProxyCreated, GetModemsDone, SimProxyCreated, GetSimPropertiesDone, SimPropertiesFailed,
                  TaskFailed, ConnmanProxyCreated, GetContextsDone, ContextProxyCreated, SyncInFailed, CommandDone,
                  ContextAdded, NewProxyCreated, CommandFailed, TaskCancelled, ModemsDone, SyncInCancelled,
                  SyncOutCancelled, inRest, taskRest, stepRest, outRest, apiVars
    <3> QED BY <3>1 DEF Contract!vars
  <2>7. ASSUME owed = 1, owed' = owed - 1, result' = cbErr, UNCHANGED cancelled,
               phase' = IF phase = "syncing in" /\ cbErr = "none" THEN "open" ELSE "closed"
        PROVE  Contract!Answer
    <3>1. owed = 1 /\ owed' = 0
      BY <2>7, OneLess, Zenon
    <3>2. cbErr \in {"none", "io", "not_found", "cancelled"} /\ (cbErr = "cancelled" => cancelled)
      BY DEF CallOK, QuitOK
    <3>3. result' \in Contract!Results /\ (result' = "cancelled" => cancelled)
      BY <2>7, <3>2 DEF Contract!Results
    <3>4. phase' = IF phase = "syncing in" /\ result' = "none" THEN "open" ELSE "closed"
      BY <2>7
    <3> QED BY <2>7, <3>1, <3>3, <3>4, Zenon DEF Contract!Answer
  <2>8. CASE CompleteSyncIn
    <3>1. call = "complete sync in"
      BY <2>8 DEF CompleteSyncIn
    <3>2. phase = "syncing in" /\ owed = 1
      BY <3>1 DEF CallOK, PlaceOK, None
    <3>3. /\ owed' = owed - 1 /\ result' = cbErr /\ UNCHANGED cancelled
          /\ phase' = IF cbErr = "none" THEN "open" ELSE "closed"
      BY <2>8 DEF CompleteSyncIn
    <3>4. phase' = IF phase = "syncing in" /\ cbErr = "none" THEN "open" ELSE "closed"
      BY <3>2, <3>3
    <3> QED BY <2>7, <3>2, <3>3, <3>4 DEF Contract!Next
  <2>9. CASE CompleteSyncOut
    <3>1. call = "complete sync out"
      BY <2>9 DEF CompleteSyncOut
    <3>2. phase = "syncing out" /\ owed = 1
      BY <3>1 DEF CallOK, PlaceOK, None
    <3>3. owed' = owed - 1 /\ result' = cbErr /\ UNCHANGED cancelled /\ phase' = "closed"
      BY <2>9 DEF CompleteSyncOut
    <3>4. phase' = IF phase = "syncing in" /\ cbErr = "none" THEN "open" ELSE "closed"
      BY <3>2, <3>3
    <3> QED BY <2>7, <3>2, <3>3, <3>4 DEF Contract!Next
  <2>10. CASE OthersChange \/ SwapSims \/ UNCHANGED vars
    BY <2>10 DEF OthersChange, SwapSims, otherRest, vars, apiVars, Contract!vars
  <2> QED BY <2>1, <2>2, <2>3, <2>4, <2>5, <2>6, <2>8, <2>9, <2>10 DEF Next, Local
<1> QED BY <1>1, <1>2, TypeInvariant, PTL DEF Spec

-----------------------------------------------------------------------------
(* The SIM that is worked on is in the modem that is asked: as long as SIMs *)
(* stay where they are during sessions.                                     *)

Searching == TaskCalls \cup {"modems done"}

SimInv ==
    /\ default = NoImsi => DOMAIN modems = {}
    /\ \A i \in DOMAIN found : call \in Searching /\ sims[found[i]] = i
    /\ phase # "closed" /\ imsi \in DOMAIN modems /\ call \notin Searching => sims[Modem.path] = imsi
    /\ call \in Searching => imsi \notin DOMAIN modems /\ (imsi = NoImsi => DOMAIN modems = {})

LEMMA SimInit == Init => SimInv
<1>1. DOMAIN Empty = {}
  BY EmptyType
<1> QED BY <1>1 DEF Init, SimInv, Searching, TaskCalls, None

LEMMA SimStart == ASSUME ~CanSwap, TypeInv, SimInv, SyncIn \/ SyncOut \/ Abort \/ Cancel PROVE SimInv'
<1> USE DEF TypeInv, None
<1>1. CASE SyncIn
  <2>1. /\ owed = 0 /\ UNCHANGED <<sims, modems, default, found>>
        /\ imsi' \in DOMAIN modems => sims[modems[imsi'].path] = imsi'
    BY <1>1 DEF SyncIn, inRest, world, taskVars
  <2>2. call = None
    BY <2>1, NothingOwed
  <2>3. DOMAIN found = {}
    BY <2>2 DEF SimInv, Searching, TaskCalls
  <2>4. PICK request \in Requests : imsi' = IF request = NoImsi THEN default ELSE request
    BY <1>1 DEF SyncIn
  <2>5. imsi' = NoImsi => DOMAIN modems = {}
    BY <2>4 DEF SimInv
  <2>6. IF imsi' \in DOMAIN modems THEN call' \in {"get contexts", "connman proxy"} ELSE call' = "manager proxy"
    BY <1>1 DEF SyncIn, GetContexts, Await
  <2>7. Modem' = modems'[imsi']
    BY DEF Modem
  <2> QED BY <2>1, <2>3, <2>5, <2>6, <2>7 DEF SimInv, Searching, TaskCalls
<1>2. CASE SyncOut
  <2>1. /\ phase = "open" /\ owed = 0 /\ UNCHANGED <<sims, modems, default, imsi, found>>
        /\ SyncOutStep(Modem, Analyse(Modem, wanted')) /\ wanted' \in Edited(Modem.settings)
    BY <1>2 DEF SyncOut, world, taskVars
  <2>2. call = None /\ imsi \in DOMAIN modems
    BY <2>1, NothingOwed DEF PlaceOK
  <2>3. Modem.settings \in Settings
    BY <2>2 DEF DataOK, IsModem, ModemType, Modem
  <2>4. Analyse(Modem, wanted') \in SUBSET AllCommands
    BY <2>1, <2>3, EditedType, AnalyseType
  <2>5. call' \notin Searching
    BY <2>1, <2>4, SyncOutStepType DEF AllCommands, CommandTypes, Searching, TaskCalls
  <2>6. DOMAIN found = {} /\ sims[Modem.path] = imsi
    BY <2>1, <2>2 DEF SimInv, Searching, TaskCalls
  <2>7. Modem' = Modem
    BY <2>1 DEF Modem
  <2> QED BY <2>1, <2>5, <2>6, <2>7 DEF SimInv
<1>3. CASE Abort
  <2>1. owed = 0 /\ phase' = "closed" /\ UNCHANGED <<sims, modems, default, found, call>>
    BY <1>3 DEF Abort, world, taskVars, callVars
  <2>2. call = None
    BY <2>1, NothingOwed
  <2> QED BY <2>1, <2>2 DEF SimInv, Searching, TaskCalls
<1>4. CASE Cancel
  <2>1. UNCHANGED <<sims, modems, default, imsi, found, call, phase>>
    BY <1>4 DEF Cancel, world, taskVars
  <2> QED BY <2>1 DEF SimInv, Modem
<1> QED BY <1>1, <1>2, <1>3, <1>4

LEMMA SimSearch ==
    ASSUME TypeInv, SimInv,
           \/ ManagerProxyCreated \/ GetModemsDone \/ SimProxyCreated
           \/ GetSimPropertiesDone \/ SimPropertiesFailed \/ TaskFailed \/ TaskCancelled
    PROVE  SimInv'
<1>1. call \in Searching /\ UNCHANGED <<sims, modems, default, imsi>>
  BY DEF ManagerProxyCreated, GetModemsDone, SimProxyCreated, GetSimPropertiesDone, SimPropertiesFailed, TaskFailed,
         TaskCancelled, Replied, Searching, TaskCalls, taskRest, inRest, world
<1>2. call' \in Searching
  BY DEF ManagerProxyCreated, GetModemsDone, SimProxyCreated, GetSimPropertiesDone, SimPropertiesFailed, TaskFailed,
         TaskCancelled, GetImsiNumbers, FinishTask, CompleteLater, Await, Searching, TaskCalls
<1>3. \A i \in DOMAIN found' : sims[found'[i]] = i
  <2>1. CASE found' = found
    BY <2>1 DEF SimInv
  <2>2. ASSUME NEW i, i = sims[Head(list)], found' = (i :> Head(list)) @@ found
        PROVE  \A j \in DOMAIN found' : sims[found'[j]] = j
    <3>1. found' = [j \in {i} \cup DOMAIN found |-> IF j = i THEN Head(list) ELSE found[j]]
      BY <2>2 DEF :>, @@
    <3> QED BY <2>2, <3>1 DEF SimInv
  <2>3. found' = found \/ found' = (sims[Head(list)] :> Head(list)) @@ found
    BY DEF ManagerProxyCreated, GetModemsDone, SimProxyCreated, GetSimPropertiesDone, SimPropertiesFailed, TaskFailed,
           TaskCancelled, taskVars
  <2> QED BY <2>1, <2>2, <2>3
<1> QED BY <1>1, <1>2, <1>3 DEF SimInv

LEMMA SimModemsDone == ASSUME TypeInv, SimInv, ModemsDone PROVE SimInv'
<1> USE DEF TypeInv
<1>1. /\ call = "modems done" /\ found' = Empty /\ UNCHANGED sims
  BY DEF ModemsDone, inRest, world
<1>2. DOMAIN found' = {}
  BY <1>1, EmptyType
<1>3. imsi \notin DOMAIN modems /\ (imsi = NoImsi => DOMAIN modems = {})
  BY <1>1 DEF SimInv, Searching
<1>4. CASE CompleteLater("complete sync in", cbErr, 1) /\ UNCHANGED <<modems, default, imsi, unseen>>
  <2>1. call' = "complete sync in"
    BY <1>4 DEF CompleteLater
  <2> QED BY <1>2, <1>3, <1>4, <2>1 DEF SimInv, Searching, TaskCalls
<1>5. CASE /\ modems' = [i \in DOMAIN found |-> IF i \in DOMAIN modems THEN modems[i] ELSE NewModem(found[i])]
           /\ FindDefault
           /\ imsi' = IF imsi = NoImsi THEN default' ELSE imsi
           /\ IF imsi' \in DOMAIN found THEN GetContexts(modems'[imsi'])
              ELSE CompleteLater("complete sync in", "not_found", 1)
  <2>1. DOMAIN modems' = DOMAIN found
    BY <1>5
  <2>2. call' \notin Searching
    BY <1>5 DEF GetContexts, Await, CompleteLater, Searching, TaskCalls
  <2>3. default' = NoImsi => DOMAIN modems' = {}
    <3>1. default' \notin DOMAIN found => DOMAIN found = {}
      BY <1>5, FindDefaultType
    <3>2. NoImsi \notin DOMAIN found
      BY SimsAssumption DEF SearchOK
    <3> QED BY <2>1, <3>1, <3>2
  <2>4. ASSUME imsi' \in DOMAIN modems' PROVE sims[Modem'.path] = imsi'
    <3>1. imsi' \notin DOMAIN modems
      BY <1>3, <1>5
    <3>2. modems'[imsi'] = NewModem(found[imsi'])
      BY <1>5, <2>1, <2>4, <3>1
    <3>3. Modem'.path = found[imsi']
      BY <3>2 DEF Modem, NewModem
    <3> QED BY <2>1, <2>4, <3>3 DEF SimInv
  <2> QED BY <1>1, <1>2, <2>2, <2>3, <2>4 DEF SimInv
<1> QED BY <1>4, <1>5 DEF ModemsDone

(* Steps that leave SIMs and modems where they are, and the search alone.   *)
LEMMA SimKept ==
    ASSUME TypeInv, SimInv, call \notin Searching, call' \notin Searching, UNCHANGED <<sims, default, found>>,
           DOMAIN modems' = DOMAIN modems,
           \/ phase' = "closed"
           \/ phase # "closed" /\ imsi' = imsi /\ \A i \in DOMAIN modems : modems'[i].path = modems[i].path
    PROVE  SimInv'
<1>1. DOMAIN found' = {}
  BY DEF SimInv
<1>2. ASSUME phase' # "closed", imsi' \in DOMAIN modems' PROVE sims'[Modem'.path] = imsi'
  <2>1. phase # "closed" /\ imsi' = imsi /\ imsi \in DOMAIN modems /\ modems'[imsi].path = modems[imsi].path
    BY <1>2
  <2> QED BY <2>1 DEF SimInv, Modem
<1> QED BY <1>1, <1>2 DEF SimInv

LEMMA SimElse ==
    ASSUME ~CanSwap, "get contexts" \notin CancelIn, TypeInv, SimInv,
           \/ ConnmanProxyCreated \/ GetContextsDone \/ ContextProxyCreated \/ SyncInFailed \/ SyncInCancelled \/ CompleteSyncIn
           \/ CommandDone \/ ContextAdded \/ NewProxyCreated \/ CommandFailed \/ SyncOutCancelled \/ CompleteSyncOut
           \/ OthersChange \/ SwapSims \/ Restart \/ UNCHANGED vars
    PROVE  SimInv'
<1> USE DEF TypeInv
<1>1. CASE ConnmanProxyCreated \/ GetContextsDone \/ ContextProxyCreated \/ SyncInFailed \/ SyncInCancelled
  <2>1. call \in {"connman proxy", "get contexts", "context proxy"}
    BY <1>1 DEF ConnmanProxyCreated, GetContextsDone, ContextProxyCreated, SyncInFailed, SyncInCancelled, Replied, InCalls, TaskCalls
  <2>2. imsi \in DOMAIN modems /\ phase # "closed"
    BY <2>1 DEF PlaceOK, InCalls, TaskCalls
  <2>3. UNCHANGED <<sims, default, found, imsi, phase>>
    BY <1>1 DEF ConnmanProxyCreated, GetContextsDone, ContextProxyCreated, SyncInFailed, SyncInCancelled,
                stepRest, inRest, world, taskVars
  <2>4. call' \in {"get contexts", "context proxy", "complete sync in", "forgotten"}
    BY <1>1 DEF ConnmanProxyCreated, GetContextsDone, ContextProxyCreated, SyncInFailed, SyncInCancelled,
                Await, GetProxies, CompleteLater, Forget
  <2>5. DOMAIN modems' = DOMAIN modems /\ \A i \in DOMAIN modems : modems'[i].path = modems[i].path
    <3>1. IsModem(modems[imsi])
      BY <2>2 DEF DataOK
    <3>2. CASE ConnmanProxyCreated
      <4>1. modems' = [modems EXCEPT ![imsi].cmProxy = TRUE]
        BY <3>2 DEF ConnmanProxyCreated
      <4> QED BY <3>1, <4>1 DEF IsModem, ModemType
    <3>3. CASE GetContextsDone
      <4>1. modems' = [modems EXCEPT ![imsi] = UpdateContexts(modems[imsi])]
        BY <3>3 DEF GetContextsDone
      <4>2. UpdateContexts(modems[imsi]).path = modems[imsi].path
        BY <3>1, UpdateContextsType DEF DataOK
      <4> QED BY <4>1, <4>2
    <3>4. CASE ContextProxyCreated
      <4>1. modems' = [modems EXCEPT ![imsi].proxies = modems[imsi].proxies \cup {at}]
        BY <3>4 DEF ContextProxyCreated
      <4> QED BY <3>1, <4>1 DEF IsModem, ModemType
    <3>5. CASE SyncInFailed \/ SyncInCancelled
      BY <3>5 DEF SyncInFailed, SyncInCancelled
    <3> QED BY <1>1, <3>2, <3>3, <3>4, <3>5
  <2> QED BY <2>1, <2>2, <2>3, <2>4, <2>5, SimKept DEF Searching, TaskCalls
<1>2. CASE CompleteSyncIn
  <2>1. /\ call = "complete sync in" /\ UNCHANGED <<sims, modems, default, imsi, found>>
        /\ call' \in {None, call}
    BY <1>2 DEF CompleteSyncIn, world, taskVars
  <2>2. phase # "closed"
    BY <2>1 DEF PlaceOK
  <2> QED BY <2>1, <2>2, SimKept DEF Searching, TaskCalls, None
<1>3. CASE CommandDone \/ ContextAdded \/ NewProxyCreated \/ CommandFailed \/ SyncOutCancelled
  <2>1. call \in CommandTypes \cup {"new proxy"} /\ UNCHANGED outRest
    BY <1>3, OutCallsAre DEF CommandDone, ContextAdded, NewProxyCreated, CommandFailed, SyncOutCancelled, Replied, CommandTypes
  <2>2. imsi \in DOMAIN modems /\ phase # "closed"
    BY <2>1 DEF PlaceOK
  <2>3. call' \in CommandTypes \cup {"new proxy", "complete sync out", "crashed"}
    <3>1. ASSUME NEW m, SyncOutStep(m, cmds) PROVE call' \in CommandTypes \cup {"complete sync out", "crashed"}
      <4>1. cmds \in SUBSET AllCommands
        BY DEF CommandsOK
      <4> QED BY <3>1, <4>1, SyncOutStepType DEF AllCommands
    <3> QED BY <1>3, <3>1 DEF CommandDone, ContextAdded, NewProxyCreated, CommandFailed, SyncOutCancelled, CompleteLater, Await
  <2>4. DOMAIN modems' = DOMAIN modems /\ \A i \in DOMAIN modems : modems'[i].path = modems[i].path
    <3>1. IsModem(modems[imsi])
      BY <2>2 DEF DataOK
    <3>2. CASE CommandDone \/ CommandFailed \/ SyncOutCancelled
      BY <3>2 DEF CommandDone, CommandFailed, SyncOutCancelled
    <3>3. CASE ContextAdded
      <4>1. modems' = modems \/ modems' = [modems EXCEPT ![imsi].mms = CommandPath]
        BY <3>3 DEF ContextAdded
      <4> DEFINE m == modems[imsi]
                 q == CommandPath
      <4>2. CASE modems' = [modems EXCEPT ![imsi].mms = q]
        <5>1. modems'[imsi] = [m EXCEPT !.mms = q] /\ DOMAIN modems' = DOMAIN modems
              /\ \A i \in DOMAIN modems \ {imsi} : modems'[i] = modems[i]
          BY <2>2, <4>2
        <5>2. modems'[imsi].path = m.path
          <6> HIDE DEF m, q
          <6>1. IsModem(m)
            BY <3>1 DEF m
          <6> QED BY <5>1, <6>1 DEF IsModem, ModemType
        <5> QED BY <5>1, <5>2
      <4> QED BY <4>1, <4>2
    <3>4. CASE NewProxyCreated
      <4>1. modems' = [modems EXCEPT ![imsi].knows = @ \cup {at}, ![imsi].proxies = @ \cup {at}]
        BY <3>4 DEF NewProxyCreated
      <4> DEFINE m == modems[imsi]
                 ks == m.knows \cup {at}
                 ps == m.proxies \cup {at}
      <4>2. modems'[imsi] = [m EXCEPT !.knows = ks, !.proxies = ps] /\ DOMAIN modems' = DOMAIN modems
            /\ \A i \in DOMAIN modems \ {imsi} : modems'[i] = modems[i]
        BY <2>2, <4>1
      <4>3. modems'[imsi].path = m.path
        <5> HIDE DEF m, ks, ps
        <5>1. IsModem(m)
          BY <3>1 DEF m
        <5> QED BY <4>2, <5>1 DEF IsModem, ModemType
      <4> QED BY <4>2, <4>3
    <3> QED BY <1>3, <3>2, <3>3, <3>4
  <2>5. UNCHANGED <<sims, default, found, imsi, phase>>
    BY <2>1 DEF outRest, taskVars, apiVars
  <2> QED BY <2>1, <2>2, <2>3, <2>4, <2>5, SimKept DEF Searching, TaskCalls, CommandTypes
<1>4. CASE CompleteSyncOut
  <2>1. /\ call = "complete sync out" /\ call' = None /\ phase' = "closed" /\ UNCHANGED <<sims, default, found>>
        /\ DOMAIN modems' = DOMAIN modems
    BY <1>4 DEF CompleteSyncOut, ClearModem, world, taskVars
  <2> QED BY <2>1, SimKept DEF Searching, TaskCalls, None
<1>5. CASE OthersChange \/ UNCHANGED vars
  <2>1. UNCHANGED <<sims, modems, default, imsi, found, call, phase>>
    BY <1>5 DEF OthersChange, otherRest, vars, world, taskVars, callVars, apiVars
  <2> QED BY <2>1 DEF SimInv, Modem
<1>6. CASE SwapSims
  <2>1. phase = "closed" /\ UNCHANGED <<modems, default, imsi, found, call, phase>>
    BY <1>6 DEF SwapSims, otherRest, taskVars, callVars, apiVars
  <2>2. call \notin Searching
    BY <2>1 DEF PlaceOK, Searching, InCalls
  <2> QED BY <2>1, <2>2 DEF SimInv
<1>7. CASE Restart
  <2>1. modems' = Empty /\ found' = Empty /\ call' = None /\ phase' = "closed"
    BY <1>7 DEF Restart
  <2>2. DOMAIN modems' = {} /\ DOMAIN found' = {}
    BY <2>1, EmptyType
  <2> QED BY <2>1, <2>2 DEF SimInv, Searching, TaskCalls, None
<1> QED BY <1>1, <1>2, <1>3, <1>4, <1>5, <1>6, <1>7

LEMMA SimInvariant == ASSUME ~CanSwap, "get contexts" \notin CancelIn PROVE Spec => []SimInv
<1>1. Init => SimInv
  BY SimInit
<1>2. TypeInv /\ SimInv /\ [Next]_vars => SimInv'
  BY SimStart, SimSearch, SimModemsDone, SimElse DEF Next, Chain, Local
<1> QED BY <1>1, <1>2, TypeInvariant, PTL DEF Spec

-----------------------------------------------------------------------------
(* What is known of a SIM's contexts is nothing or what there is, unless    *)
(* others have changed it or a client's changes are under way.              *)

Listed(i) == modems[i].settings = View(i) /\ modems[i].mms = First(MmsPaths, Of(i))
Known(i) == (modems[i].settings = Empty /\ modems[i].mms = None) \/ Listed(i)

ListInv ==
    /\ \A i \in DOMAIN modems \ unseen : (i = imsi /\ phase = "syncing out") \/ Known(i)
    /\ call = "context proxy" \/ (call = "complete sync in" /\ cbErr = "none") => imsi \in unseen \/ Listed(imsi)

(* A step that leaves the contexts of a SIM as they are.                    *)
Untouched(i) == Of(i)' = Of(i) /\ \A p \in Of(i) : contexts'[p] = contexts[p]

LEMMA ViewKept ==
    ASSUME NEW i, Untouched(i)
    PROVE  View(i)' = View(i) /\ First(MmsPaths, Of(i))' = First(MmsPaths, Of(i))
<1>1. First(MmsPaths, Of(i))' = First(MmsPaths, Of(i))
  BY DEF Untouched, First
<1> DEFINE mms == First(MmsPaths, Of(i))
           ks == (Of(i) \cap Internet) \cup (IF mms = None THEN {} ELSE {"mms"})
<1>2. View(i) = [k \in ks |-> contexts[IF k = "mms" THEN mms ELSE k]]
  BY DEF View
<1>3. View(i)' = [k \in ks |-> contexts'[IF k = "mms" THEN mms ELSE k]]
  BY <1>1 DEF View, Untouched
<1>4. ASSUME NEW k \in ks PROVE (IF k = "mms" THEN mms ELSE k) \in Of(i)
  <2>1. k = "mms" => mms # None
    BY SimsAssumption DEF Internet
  <2>2. k # "mms" => k \in Of(i)
    OBVIOUS
  <2>3. mms # None => mms \in Of(i)
    BY MmsFound
  <2> QED BY <2>1, <2>2, <2>3
<1>5. \A k \in ks : contexts'[IF k = "mms" THEN mms ELSE k] = contexts[IF k = "mms" THEN mms ELSE k]
  BY <1>4 DEF Untouched
<1> HIDE DEF ks, mms
<1>6. View(i)' = View(i)
  BY <1>2, <1>3, <1>5
<1> QED BY <1>1, <1>6

LEMMA KnownKept ==
    ASSUME NEW i, Untouched(i), modems'[i].settings = modems[i].settings, modems'[i].mms = modems[i].mms
    PROVE  (Known(i) => Known(i)') /\ (Listed(i) => Listed(i)')
BY ViewKept DEF Known, Listed

LEMMA AllUntouched == ASSUME UNCHANGED contexts PROVE \A i : Untouched(i)
BY DEF Untouched, Of

(* A command of a client is about a context of its SIM.                     *)
LEMMA OthersUntouched ==
    ASSUME NEW p, NEW i, Sim[p] # i,
           \A q : q # p => (q \in DOMAIN contexts' <=> q \in DOMAIN contexts),
           \A q \in DOMAIN contexts' : q # p => contexts'[q] = contexts[q]
    PROVE  Untouched(i)
<1>1. \A q : q \in Of(i)' <=> q \in Of(i)
  BY DEF Of
<1>2. Of(i)' = Of(i)
  BY <1>1
<1>3. ASSUME NEW q \in Of(i) PROVE contexts'[q] = contexts[q]
  BY DEF Of
<1> QED BY <1>2, <1>3 DEF Untouched

(* An empty listing knows of no MMS context either.                         *)
LEMMA NothingListed ==
    ASSUME ContextsOK, NEW i, Known(i), modems[i].settings = Empty
    PROVE  modems[i].mms = None
<1>1. CASE Listed(i)
  <2>1. DOMAIN View(i) = {}
    BY <1>1, EmptyType DEF Listed
  <2>2. First(MmsPaths, Of(i)) = None
    BY <2>1, ViewType
  <2> QED BY <1>1, <2>2 DEF Listed
<1> QED BY <1>1 DEF Known

LEMMA Overriding ==
    ASSUME NEW s, s = [k \in DOMAIN s |-> s[k]], NEW ks, ks \subseteq DOMAIN s
    PROVE  [k \in ks |-> s[k]] @@ s = s /\ s @@ s = s /\ s @@ Empty = s
<1>1. DOMAIN Empty = {}
  BY EmptyType
<1>2. s @@ Empty = [k \in DOMAIN s |-> s[k]]
  BY <1>1 DEF @@
<1>3. s @@ s = [k \in DOMAIN s |-> s[k]]
  BY DEF @@
<1>4. [k \in ks |-> s[k]] @@ s = [k \in DOMAIN s |-> s[k]]
  <2> DEFINE f == [k \in ks |-> s[k]]
  <2>1. DOMAIN f = ks /\ \A k \in ks : f[k] = s[k]
    OBVIOUS
  <2> HIDE DEF f
  <2>2. f @@ s = [k \in DOMAIN s |-> IF k \in ks THEN f[k] ELSE s[k]]
    BY <2>1 DEF @@
  <2>3. \A k \in DOMAIN s : (IF k \in ks THEN f[k] ELSE s[k]) = s[k]
    BY <2>1
  <2>4. f @@ s = [k \in DOMAIN s |-> s[k]]
    BY <2>2, <2>3
  <2> QED BY <2>4 DEF f
<1> QED BY <1>2, <1>3, <1>4

(* Listing, whether nothing was known or all of it was.                     *)
LEMMA ListedByUpdate ==
    ASSUME ContextsOK, NEW i, IsModem(modems[i]), sims[modems[i].path] = i, Known(i)
    PROVE  UpdateContexts(modems[i]).settings = View(i) /\ UpdateContexts(modems[i]).mms = First(MmsPaths, Of(i))
<1> DEFINE m == modems[i]
           some == [k \in Of(i) \cap Internet |-> View(i)[k]]
<1>1. View(i) = [k \in DOMAIN View(i) |-> View(i)[k]] /\ Of(i) \cap Internet \subseteq DOMAIN View(i)
  BY ViewType, SettingsAre
<1>2. some @@ View(i) = View(i) /\ View(i) @@ View(i) = View(i) /\ View(i) @@ Empty = View(i)
  <2> DEFINE s == View(i)
             ks == Of(i) \cap Internet
  <2> HIDE DEF s, ks
  <2>1. s = [k \in DOMAIN s |-> s[k]] /\ ks \subseteq DOMAIN s
    BY <1>1 DEF s, ks
  <2>2. [k \in ks |-> s[k]] @@ s = s /\ s @@ s = s /\ s @@ Empty = s
    BY <2>1, Overriding
  <2> QED BY <2>2 DEF s, ks
<1>3. /\ UpdateContexts(m).mms = IF m.mms = None THEN First(MmsPaths, Of(i)) ELSE m.mms
      /\ m.mms = None => UpdateContexts(m).settings = View(i) @@ m.settings
      /\ m.mms # None => UpdateContexts(m).settings = some @@ m.settings
  BY UpdateContextsType
<1>4. CASE m.settings = Empty /\ m.mms = None
  BY <1>2, <1>3, <1>4
<1>5. CASE Listed(i)
  <2>1. m.settings = View(i) /\ m.mms = First(MmsPaths, Of(i))
    BY <1>5 DEF Listed
  <2> HIDE DEF m, some
  <2> QED BY <1>2, <1>3, <2>1 DEF m
<1> QED BY <1>4, <1>5 DEF Known

LEMMA ListInit == Init => ListInv
<1>1. DOMAIN Empty = {}
  BY EmptyType
<1> QED BY <1>1 DEF Init, ListInv, None

(* Steps that change neither what is known of contexts nor what there is.   *)
LEMMA ListSame ==
    ASSUME ListInv, UNCHANGED <<contexts, modems, unseen>>,
           phase = "syncing out" => imsi' = imsi /\ phase' = "syncing out",
           call' = "context proxy" \/ (call' = "complete sync in" /\ cbErr' = "none")
              => imsi' = imsi /\ (call = "context proxy" \/ (call = "complete sync in" /\ cbErr = "none"))
    PROVE  ListInv'
<1>1. \A i : Untouched(i)
  BY AllUntouched
<1>2. \A i : (Known(i) => Known(i)') /\ (Listed(i) => Listed(i)')
  BY <1>1, KnownKept
<1>3. \A i \in DOMAIN modems' \ unseen' : (i = imsi' /\ phase' = "syncing out") \/ Known(i)'
  BY <1>2 DEF ListInv
<1>4. ASSUME call' = "context proxy" \/ (call' = "complete sync in" /\ cbErr' = "none"), NEW i, i = imsi
      PROVE  imsi' = i /\ (i \in unseen' \/ Listed(i)')
  BY <1>2, <1>4 DEF ListInv
<1>5. call' = "context proxy" \/ (call' = "complete sync in" /\ cbErr' = "none") => imsi' \in unseen' \/ Listed(imsi)'
  BY <1>4 DEF Listed
<1> QED BY <1>3, <1>5 DEF ListInv

LEMMA ListStart == ASSUME TypeInv, ListInv, SyncIn \/ SyncOut \/ Abort \/ Cancel PROVE ListInv'
<1> USE DEF TypeInv, None
<1>1. CASE SyncIn
  <2>1. /\ phase = "closed" /\ UNCHANGED <<contexts, modems, unseen>>
        /\ call' \in {"get contexts", "connman proxy", "manager proxy"}
    BY <1>1 DEF SyncIn, GetContexts, Await, inRest, world
  <2> QED BY <2>1, ListSame
<1>2. CASE SyncOut
  <2>1. /\ phase = "open" /\ owed = 0 /\ UNCHANGED <<contexts, modems, imsi, unseen>>
        /\ SyncOutStep(Modem, Analyse(Modem, wanted')) /\ wanted' \in Edited(Modem.settings)
    BY <1>2 DEF SyncOut, world
  <2>2. Modem.settings \in Settings
    BY <2>1 DEF PlaceOK, DataOK, IsModem, ModemType, Modem
  <2>3. Analyse(Modem, wanted') \in SUBSET AllCommands
    BY <2>1, <2>2, EditedType, AnalyseType
  <2>4. call' \notin {"context proxy", "complete sync in"}
    BY <2>1, <2>3, SyncOutStepType DEF AllCommands, CommandTypes
  <2> QED BY <2>1, <2>4, ListSame
<1>3. CASE Abort
  <2>1. phase = "open" /\ owed = 0 /\ UNCHANGED <<contexts, modems, unseen, call>>
    BY <1>3 DEF Abort, world, callVars
  <2>2. call = None
    BY <2>1, NothingOwed
  <2> QED BY <2>1, <2>2, ListSame
<1>4. CASE Cancel
  <2>1. UNCHANGED <<contexts, modems, imsi, unseen, call, cbErr, phase>>
    BY <1>4 DEF Cancel, world
  <2> QED BY <2>1, ListSame
<1> QED BY <1>1, <1>2, <1>3, <1>4

LEMMA ListSearch ==
    ASSUME TypeInv, ListInv,
           \/ ManagerProxyCreated \/ GetModemsDone \/ SimProxyCreated
           \/ GetSimPropertiesDone \/ SimPropertiesFailed \/ TaskFailed \/ TaskCancelled
    PROVE  ListInv'
<1>1. UNCHANGED <<contexts, modems, unseen, imsi, phase>>
  BY DEF ManagerProxyCreated, GetModemsDone, SimProxyCreated, GetSimPropertiesDone, SimPropertiesFailed, TaskFailed,
         TaskCancelled, taskRest, inRest, world
<1>2. call' \in TaskCalls \cup {"modems done"}
  BY DEF ManagerProxyCreated, GetModemsDone, SimProxyCreated, GetSimPropertiesDone, SimPropertiesFailed, TaskFailed,
         TaskCancelled, GetImsiNumbers, FinishTask, CompleteLater, Await, TaskCalls
<1> QED BY <1>1, <1>2, ListSame DEF TaskCalls

LEMMA ListModemsDone == ASSUME TypeInv, ListInv, ModemsDone PROVE ListInv'
<1>1. phase = "syncing in" /\ UNCHANGED <<contexts, phase>>
  BY DEF ModemsDone, TypeInv, PlaceOK, inRest, world
<1>2. CASE cbErr # "none" /\ CompleteLater("complete sync in", cbErr, 1) /\ UNCHANGED <<modems, default, imsi, unseen>>
  <2>1. call' = "complete sync in" /\ cbErr' # "none"
    BY <1>2 DEF CompleteLater
  <2> QED BY <1>1, <1>2, <2>1, ListSame
<1>3. CASE /\ modems' = [i \in DOMAIN found |-> IF i \in DOMAIN modems THEN modems[i] ELSE NewModem(found[i])]
           /\ unseen' = unseen \cap DOMAIN found
           /\ IF imsi' \in DOMAIN found THEN GetContexts(modems'[imsi'])
              ELSE CompleteLater("complete sync in", "not_found", 1)
  <2>1. call' \in {"get contexts", "connman proxy"} \/ (call' = "complete sync in" /\ cbErr' = "not_found")
    BY <1>3 DEF GetContexts, Await, CompleteLater
  <2>2. ASSUME NEW i \in DOMAIN modems' \ unseen' PROVE Known(i)'
    <3>1. i \in DOMAIN found /\ i \notin unseen
      BY <1>3, <2>2
    <3>2. CASE i \in DOMAIN modems
      <4>1. modems'[i] = modems[i] /\ Untouched(i)
        BY <1>1, <1>3, <3>1, <3>2, AllUntouched
      <4>2. Known(i)
        BY <1>1, <3>1, <3>2 DEF ListInv
      <4> QED BY <4>1, <4>2, KnownKept
    <3>3. CASE i \notin DOMAIN modems
      <4>1. modems'[i] = NewModem(found[i])
        BY <1>3, <3>1, <3>3
      <4>2. modems'[i].settings = Empty /\ modems'[i].mms = None
        BY <4>1 DEF NewModem
      <4> QED BY <4>2 DEF Known
    <3> QED BY <3>2, <3>3
  <2> QED BY <2>1, <2>2 DEF ListInv
<1> QED BY <1>2, <1>3 DEF ModemsDone

(* Listing the contexts of a SIM.                                           *)
LEMMA ListRead ==
    ASSUME TypeInv, SimInv, ListInv,
           ConnmanProxyCreated \/ GetContextsDone \/ ContextProxyCreated \/ SyncInFailed \/ SyncInCancelled \/ CompleteSyncIn
    PROVE  ListInv'
<1> USE DEF TypeInv, None
<1>1. phase = "syncing in" /\ UNCHANGED <<contexts, unseen, imsi>>
  BY DEF ConnmanProxyCreated, GetContextsDone, ContextProxyCreated, SyncInFailed, SyncInCancelled, CompleteSyncIn, Replied,
         PlaceOK, InCalls, TaskCalls, stepRest, inRest, world
<1>2. \A i : Untouched(i)
  BY <1>1, AllUntouched
<1>3. CASE ConnmanProxyCreated \/ ContextProxyCreated
  <2>1. call \in {"connman proxy", "context proxy"}
    BY <1>3 DEF ConnmanProxyCreated, ContextProxyCreated, Replied
  <2>2. imsi \in DOMAIN modems /\ IsModem(modems[imsi])
    BY <2>1 DEF PlaceOK, InCalls, TaskCalls, DataOK
  <2>3. modems' = [modems EXCEPT ![imsi].cmProxy = TRUE] \/ modems' = [modems EXCEPT ![imsi].proxies = modems[imsi].proxies \cup {at}]
    BY <1>3 DEF ConnmanProxyCreated, ContextProxyCreated
  <2>4. DOMAIN modems' = DOMAIN modems /\ \A i \in DOMAIN modems : modems'[i].settings = modems[i].settings /\ modems'[i].mms = modems[i].mms
    BY <2>2, <2>3 DEF IsModem, ModemType
  <2>5. \A i \in DOMAIN modems : (Known(i) => Known(i)') /\ (Listed(i) => Listed(i)')
    BY <1>2, <2>4, KnownKept
  <2>6. \A i \in DOMAIN modems' \ unseen' : Known(i)'
    BY <1>1, <2>4, <2>5 DEF ListInv
  <2>7. call' = "get contexts" \/ call = "context proxy"
    BY <1>3 DEF ConnmanProxyCreated, ContextProxyCreated, Await, Replied
  <2>8. ASSUME NEW i, i = imsi, call = "context proxy" PROVE i \in unseen' \/ Listed(i)'
    BY <1>1, <2>2, <2>5, <2>8 DEF ListInv
  <2>9. call = "context proxy" => imsi \in unseen' \/ Listed(imsi)'
    BY <1>1, <2>8 DEF Listed
  <2> QED BY <1>1, <2>6, <2>7, <2>9 DEF ListInv
<1>4. CASE GetContextsDone
  <2>1. call = "get contexts" /\ modems' = [modems EXCEPT ![imsi] = UpdateContexts(modems[imsi])]
    BY <1>4 DEF GetContextsDone, Replied
  <2>2. imsi \in DOMAIN modems /\ IsModem(modems[imsi]) /\ sims[modems[imsi].path] = imsi /\ ContextsOK
    BY <1>1, <2>1 DEF PlaceOK, InCalls, TaskCalls, DataOK, SimInv, Searching, Modem
  <2>3. ASSUME NEW i \in DOMAIN modems, i \notin unseen
        PROVE  Known(i)' /\ (i = imsi => Listed(i)')
    <3>1. Known(i)
      BY <1>1, <2>3 DEF ListInv
    <3>2. CASE i # imsi
      <4>1. modems'[i] = modems[i]
        BY <2>1, <2>3, <3>2
      <4> QED BY <1>2, <3>1, <3>2, <4>1, KnownKept
    <3>3. CASE i = imsi
      <4>1. IsModem(modems[i]) /\ sims[modems[i].path] = i /\ ContextsOK
        BY <2>2, <3>3
      <4>2. UpdateContexts(modems[i]).settings = View(i) /\ UpdateContexts(modems[i]).mms = First(MmsPaths, Of(i))
        BY <3>1, <4>1, ListedByUpdate
      <4>3. modems'[i] = UpdateContexts(modems[i])
        BY <2>1, <2>3, <3>3
      <4>4. View(i)' = View(i) /\ First(MmsPaths, Of(i))' = First(MmsPaths, Of(i))
        BY <1>2, ViewKept
      <4> QED BY <4>2, <4>3, <4>4 DEF Known, Listed
    <3> QED BY <3>2, <3>3
  <2>4. DOMAIN modems' = DOMAIN modems
    BY <2>1
  <2>5. \A i \in DOMAIN modems' \ unseen' : Known(i)'
    BY <1>1, <2>3, <2>4
  <2>6. ASSUME NEW i, i = imsi PROVE i \in unseen' \/ Listed(i)'
    BY <1>1, <2>2, <2>3, <2>6
  <2>7. imsi' \in unseen' \/ Listed(imsi)'
    BY <1>1, <2>6 DEF Listed
  <2> QED BY <2>5, <2>7 DEF ListInv
<1>5. CASE SyncInFailed \/ SyncInCancelled
  <2>1. UNCHANGED modems /\ (call' = "forgotten" \/ (call' = "complete sync in" /\ cbErr' # "none"))
    BY <1>5 DEF SyncInFailed, SyncInCancelled, CompleteLater, Forget
  <2> QED BY <1>1, <2>1, ListSame
<1>6. CASE CompleteSyncIn
  <2>1. call = "complete sync in" /\ UNCHANGED modems /\ call' = IF completions = 1 THEN None ELSE call
    BY <1>6 DEF CompleteSyncIn
  <2>2. call' = None
    BY <2>1 DEF CallOK
  <2> QED BY <1>1, <2>1, <2>2, ListSame
<1> QED BY <1>3, <1>4, <1>5, <1>6

(* Carrying out a client's changes: what is known of the other SIMs stays   *)
(* as it is, and of this one nothing is kept.                               *)
LEMMA ListWritten ==
    ASSUME TypeInv, SimInv, ListInv,
           CommandDone \/ ContextAdded \/ NewProxyCreated \/ CommandFailed \/ SyncOutCancelled \/ CompleteSyncOut
    PROVE  ListInv'
<1> USE DEF TypeInv, None
<1>1. CASE CommandDone \/ ContextAdded \/ NewProxyCreated \/ CommandFailed \/ SyncOutCancelled
  <2>1. call \in CommandTypes \cup {"new proxy"} /\ UNCHANGED outRest
    BY <1>1, OutCallsAre DEF CommandDone, ContextAdded, NewProxyCreated, CommandFailed, SyncOutCancelled, Replied, CommandTypes
  <2>2. phase = "syncing out" /\ imsi \in DOMAIN modems /\ sims[Modem.path] = imsi
    <3>1. phase = "syncing out" /\ imsi \in DOMAIN modems
      BY <2>1 DEF PlaceOK
    <3>2. call \notin Searching
      BY <2>1 DEF CommandTypes, Searching, TaskCalls
    <3> QED BY <3>1, <3>2 DEF SimInv
  <2>3. UNCHANGED <<phase, imsi, unseen>>
    BY <2>1 DEF outRest, apiVars
  <2>4. call' \notin {"context proxy", "complete sync in"}
    <3>1. ASSUME NEW m, SyncOutStep(m, cmds) PROVE call' \notin {"context proxy", "complete sync in"}
      <4>1. cmds \in SUBSET AllCommands
        BY DEF CommandsOK
      <4> QED BY <3>1, <4>1, SyncOutStepType DEF AllCommands, CommandTypes
    <3> QED BY <1>1, <3>1 DEF CommandDone, ContextAdded, NewProxyCreated, CommandFailed, SyncOutCancelled, CompleteLater, Await
  <2>5. \A i \in DOMAIN modems \ {imsi} : Untouched(i)
    <3>1. CASE UNCHANGED contexts
      BY <3>1, AllUntouched
    <3>2. CASE call \in CommandTypes /\ CanApply /\ contexts' = Applied
      <4>1. ContextsOK /\ wanted \in Settings /\ (call = "set" => at \in DOMAIN wanted)
        BY DEF DataOK, CommandsOK, PlaceOK
      <4>2. /\ Here(CommandPath)
            /\ \A p : p # CommandPath => (p \in DOMAIN Applied <=> p \in DOMAIN contexts)
            /\ \A p \in DOMAIN Applied : p # CommandPath => Applied[p] = contexts[p]
        BY <3>2, <4>1, AppliedType
      <4>3. ASSUME NEW q, q = CommandPath, NEW i, i # imsi PROVE Untouched(i)
        <5>1. Sim[q] # i
          BY <2>2, <4>2, <4>3 DEF Here
        <5> QED BY <3>2, <4>2, <4>3, <5>1, OthersUntouched
      <4> QED BY <4>3
    <3>3. UNCHANGED contexts \/ (call \in CommandTypes /\ CanApply /\ contexts' = Applied)
      BY <1>1, CommandTypesAll DEF CommandDone, ContextAdded, NewProxyCreated, CommandFailed, SyncOutCancelled, Unheard, Replied, CommandTypes
    <3> QED BY <3>1, <3>2, <3>3
  <2>6. DOMAIN modems' = DOMAIN modems /\ \A i \in DOMAIN modems \ {imsi} : modems'[i] = modems[i]
    BY <1>1 DEF CommandDone, ContextAdded, NewProxyCreated, CommandFailed, SyncOutCancelled
  <2>7. ASSUME NEW i \in DOMAIN modems' \ unseen', i # imsi PROVE Known(i)'
    <3>1. Known(i)
      BY <2>3, <2>6, <2>7 DEF ListInv
    <3> QED BY <2>5, <2>6, <2>7, <3>1, KnownKept
  <2> QED BY <2>2, <2>3, <2>4, <2>7 DEF ListInv
<1>2. CASE CompleteSyncOut
  <2>1. /\ modems' = [modems EXCEPT ![imsi].settings = Empty, ![imsi].mms = None]
        /\ call = "complete sync out" /\ call' = None /\ unseen' = unseen \ {imsi} /\ UNCHANGED contexts
    BY <1>2 DEF CompleteSyncOut, ClearModem, world
  <2>2. imsi \in DOMAIN modems /\ IsModem(modems[imsi])
    BY <2>1 DEF PlaceOK, DataOK
  <2> DEFINE m == modems[imsi]
  <2>3. modems'[imsi] = [m EXCEPT !.settings = Empty, !.mms = None] /\ DOMAIN modems' = DOMAIN modems
        /\ \A i \in DOMAIN modems \ {imsi} : modems'[i] = modems[i]
    BY <2>1, <2>2
  <2>4. modems'[imsi].settings = Empty /\ modems'[imsi].mms = None
    <3> HIDE DEF m
    <3>1. IsModem(m)
      BY <2>2 DEF m
    <3> QED BY <2>3, <3>1 DEF IsModem, ModemType
  <2>5. ASSUME NEW i \in DOMAIN modems' \ unseen' PROVE Known(i)'
    <3>1. CASE i = imsi
      BY <2>4, <3>1 DEF Known
    <3>2. CASE i # imsi
      <4>1. Known(i) /\ Untouched(i)
        BY <2>1, <2>3, <2>5, <3>2, AllUntouched DEF ListInv
      <4> QED BY <2>3, <2>5, <3>2, <4>1, KnownKept
    <3> QED BY <3>1, <3>2
  <2> QED BY <2>1, <2>5 DEF ListInv
<1> QED BY <1>1, <1>2

LEMMA ListElse == ASSUME ~CanSwap, TypeInv, ListInv, OthersChange \/ SwapSims \/ Restart \/ UNCHANGED vars PROVE ListInv'
<1> USE DEF TypeInv, None
<1>1. CASE OthersChange
  <2>1. PICK p \in Paths :
           /\ \/ /\ p \in DOMAIN contexts
                 /\ contexts' = [q \in DOMAIN contexts \ {p} |-> contexts[q]]
              \/ /\ p \in DOMAIN contexts \cup OthersMake
                 /\ contexts' = (p :> Theirs) @@ contexts /\ contexts' # contexts
           /\ unseen' = unseen \cup (Watched \cap {Sim[p]})
    BY <1>1 DEF OthersChange
  <2>2. UNCHANGED <<modems, imsi, phase, call, cbErr>>
    BY <1>1 DEF OthersChange, otherRest, callVars, apiVars
  <2>3. /\ \A q : q # p => (q \in DOMAIN contexts' <=> q \in DOMAIN contexts)
        /\ \A q \in DOMAIN contexts' : q # p => contexts'[q] = contexts[q]
    <3>1. CASE contexts' = [q \in DOMAIN contexts \ {p} |-> contexts[q]]
      BY <3>1
    <3>2. CASE contexts' = (p :> Theirs) @@ contexts
      <4>1. contexts' = [q \in {p} \cup DOMAIN contexts |-> IF q = p THEN Theirs ELSE contexts[q]]
        BY <3>2 DEF :>, @@
      <4> QED BY <4>1
    <3> QED BY <2>1, <3>1, <3>2
  <2>4. \A i : i # Sim[p] => Untouched(i)
    BY <2>3, OthersUntouched
  <2>5. ASSUME NEW i \in DOMAIN modems' \ unseen' PROVE (i = imsi' /\ phase' = "syncing out") \/ Known(i)'
    <3>1. (i = imsi /\ phase = "syncing out") \/ Known(i)
      BY <2>1, <2>2, <2>5 DEF ListInv
    <3>2. CASE i # Sim[p]
      BY <2>2, <2>4, <3>1, <3>2, KnownKept
    <3>3. CASE i = Sim[p]
      <4>1. i \notin Watched
        BY <2>1, <2>5, <3>3
      <4>2. modems[i].settings = Empty /\ ~(i = imsi /\ phase = "syncing out")
        BY <2>2, <2>5, <4>1 DEF Watched
      <4>3. modems[i].mms = None
        BY <3>1, <4>2, NothingListed DEF DataOK
      <4> QED BY <2>2, <4>2, <4>3 DEF Known
    <3> QED BY <3>2, <3>3
  <2>6. ASSUME NEW i, i = imsi, call = "context proxy" \/ (call = "complete sync in" /\ cbErr = "none")
        PROVE  i \in unseen' \/ Listed(i)'
    <3>1. i \in unseen \/ Listed(i)
      BY <2>6 DEF ListInv
    <3>2. i \in Watched
      BY <2>6 DEF PlaceOK, InCalls, TaskCalls, Watched
    <3>3. CASE i = Sim[p]
      BY <2>1, <3>2, <3>3
    <3>4. CASE i # Sim[p]
      BY <2>1, <2>2, <2>4, <3>1, <3>4, KnownKept
    <3> QED BY <3>3, <3>4
  <2>7. call' = "context proxy" \/ (call' = "complete sync in" /\ cbErr' = "none") => imsi' \in unseen' \/ Listed(imsi)'
    BY <2>2, <2>6 DEF Listed
  <2> QED BY <2>5, <2>7 DEF ListInv
<1>2. CASE SwapSims \/ UNCHANGED vars
  <2>1. UNCHANGED <<contexts, modems, unseen, imsi, phase, call, cbErr>>
    BY <1>2 DEF SwapSims, otherRest, vars, world, callVars, apiVars
  <2> QED BY <2>1, ListSame
<1>3. CASE Restart
  <2>1. modems' = Empty /\ call' = None
    BY <1>3 DEF Restart
  <2>2. DOMAIN modems' = {}
    BY <2>1, EmptyType
  <2> QED BY <2>1, <2>2 DEF ListInv
<1> QED BY <1>1, <1>2, <1>3

LEMMA ListInvariant == ASSUME ~CanSwap, "get contexts" \notin CancelIn PROVE Spec => []ListInv
<1>1. Init => ListInv
  BY ListInit
<1>2. TypeInv /\ SimInv /\ ListInv /\ [Next]_vars => ListInv'
  BY ListStart, ListSearch, ListModemsDone, ListRead, ListWritten, ListElse DEF Next, Chain, Local
<1> QED BY <1>1, <1>2, TypeInvariant, SimInvariant, PTL DEF Spec

(* A session that has been opened shows the contexts of its SIM as they     *)
(* are, however the sessions before it ended and whatever became of the     *)
(* other SIMs meanwhile, unless other programs have changed what was listed *)
(* already (prv_ofono_plugin_update_contexts, prv_get_modems_cb,            *)
(* prv_complete_sync_out): as long as SIMs stay in their modems while a     *)
(* session lasts and no client asks for one that has moved.                 *)
THEOREM OfonoListsWhatIsThere ==
    ASSUME ~CanSwap, "get contexts" \notin CancelIn
    PROVE  Spec => ListsWhatIsThere
<1>1. TypeInv /\ ListInv /\ [Next]_vars
         => [CompleteSyncIn /\ result' = "none" /\ imsi \notin unseen => Modem.settings = View(imsi)]_vars
  <2> SUFFICES ASSUME ListInv, CompleteSyncIn, result' = "none", imsi \notin unseen
               PROVE  Modem.settings = View(imsi)
    OBVIOUS
  <2>1. call = "complete sync in" /\ cbErr = "none"
    BY DEF CompleteSyncIn
  <2>2. Listed(imsi)
    BY <2>1 DEF ListInv
  <2> QED BY <2>2 DEF Listed, Modem
<1> QED BY <1>1, TypeInvariant, ListInvariant, PTL DEF Spec, ListsWhatIsThere

-----------------------------------------------------------------------------
(* The commands of sync_out, and what they are to bring about.              *)

(* The command of a type for a context, the context that it is for, and     *)
(* the command that makes it.                                               *)
Order(type, key) == [type |-> type, key |-> key]
PlaceOf(k, mms) == IF k = "mms" THEN mms ELSE k
Making(k) == Order(IF k = "mms" THEN "add mms" ELSE "add", k)

(* A command is about the SIM that is worked on, and it is one that what is *)
(* wanted calls for.                                                        *)
Suits(c, i, want, cs, mms) ==
    /\ c.key \in Internet => Sim[c.key] = i
    /\ c.type = "delete" => c.key \in Internet \ DOMAIN want
    /\ c.type = "delete mms" => c.key = "mms" /\ "mms" \notin DOMAIN want
    /\ c.type = "add" => c.key \in Internet \cap DOMAIN want /\ c.key \notin DOMAIN cs
    /\ c.type = "add mms" => c.key = "mms" /\ "mms" \in DOMAIN want /\ mms = None /\ \E p \in Mms \ DOMAIN cs : Sim[p] = i
    /\ c.type = "set" => c.key \in DOMAIN want
    /\ c.type = "clear" => (c.key \in DOMAIN want => want[c.key] = Unset)

(* What is wanted of a context is there, or commanded. *)
Met(k, Q, want, cs, mms) ==
    \/ Making(k) \in Q /\ (want[k] = Unset \/ Order("set", k) \in Q)
    \/ /\ PlaceOf(k, mms) \in DOMAIN cs
       /\ cs[PlaceOf(k, mms)] = want[k] \/ Order("set", k) \in Q \/ Order("clear", k) \in Q

(* The commands Q make contexts cs of SIM i those that are wanted.          *)
Todo(Q, i, want, cs, mms) ==
    /\ mms # None => Sim[mms] = i
    /\ \A c \in Q : Suits(c, i, want, cs, mms)
    /\ \A k \in DOMAIN want : (k \in Internet => Sim[k] = i) /\ Met(k, Q, want, cs, mms)
    /\ \A p \in DOMAIN cs \cap Internet : Sim[p] = i /\ p \notin DOMAIN want => Order("delete", p) \in Q
    /\ "mms" \notin DOMAIN want => mms \notin DOMAIN cs \/ Order("delete mms", "mms") \in Q

(* Commands are told apart by their types and keys.                         *)
LEMMA OneOrderLess ==
    ASSUME NEW Q \in SUBSET AllCommands, NEW c \in Q
    PROVE  /\ c = Order(c.type, c.key) /\ c.type \in CommandTypes /\ c.key \in Keys
           /\ \A type, key : Order(type, key) \in Q /\ ~(type = c.type /\ key = c.key) => Order(type, key) \in Q \ {c}
BY DEF AllCommands, Order

(* No path is called as the MMS setting is.                                 *)
LEMMA KindsOfKeys ==
    /\ "mms" \notin Internet /\ None \notin Paths /\ "mms" \notin Mms /\ Mms \subseteq Paths /\ Internet \subseteq Paths
    /\ Mms \cap Internet = {}
BY SimsAssumption DEF Internet, None

(* A context that is removed is one that is not wanted.                     *)
LEMMA Deleted ==
    ASSUME NEW Q \in SUBSET AllCommands, NEW c \in Q, NEW i, NEW want \in Settings, NEW cs, DOMAIN cs \subseteq Paths, NEW mms \in Mms \cup {None},
           Todo(Q, i, want, cs, mms), c.type \in {"delete", "delete mms"},
           NEW cs1, cs1 = [p \in DOMAIN cs \ {PlaceOf(c.key, mms)} |-> cs[p]]
    PROVE  Todo(Q \ {c}, i, want, cs1, mms)
<1> DEFINE p == PlaceOf(c.key, mms)
<1>1. DOMAIN cs1 = DOMAIN cs \ {p} /\ \A q \in DOMAIN cs1 : cs1[q] = cs[q]
  OBVIOUS
<1>2. Suits(c, i, want, cs, mms)
  BY DEF Todo
<1>3. \A k \in DOMAIN want : PlaceOf(k, mms) # p
  <2>1. \A k \in DOMAIN want : k \in Keys
    BY SettingsAre
  <2> QED BY <1>2, <2>1, KindsOfKeys DEF Suits, PlaceOf, Keys
<1> HIDE DEF p
<1>4. \A d \in Q \ {c} : Suits(d, i, want, cs1, mms)
  <2>1. \A d \in Q : Suits(d, i, want, cs, mms)
    BY DEF Todo
  <2> QED BY <1>1, <2>1 DEF Suits
<1>5. \A k \in DOMAIN want : (k \in Internet => Sim[k] = i) /\ Met(k, Q \ {c}, want, cs1, mms)
  <2> TAKE k \in DOMAIN want
  <2>1. (k \in Internet => Sim[k] = i) /\ Met(k, Q, want, cs, mms)
    BY DEF Todo
  <2> QED BY <1>1, <1>3, <2>1, OneOrderLess DEF Met, Making
<1>6. \A q \in DOMAIN cs1 \cap Internet : Sim[q] = i /\ q \notin DOMAIN want => Order("delete", q) \in Q \ {c}
  <2> TAKE q \in DOMAIN cs1 \cap Internet
  <2> HAVE Sim[q] = i /\ q \notin DOMAIN want
  <2>1. Order("delete", q) \in Q /\ q # p
    BY <1>1 DEF Todo
  <2>2. q # c.key \/ c.type # "delete"
    BY <2>1, KindsOfKeys DEF p, PlaceOf
  <2> QED BY <2>1, <2>2, OneOrderLess
<1>7. "mms" \notin DOMAIN want => mms \notin DOMAIN cs1 \/ Order("delete mms", "mms") \in Q \ {c}
  <2> HAVE "mms" \notin DOMAIN want
  <2>1. mms \notin DOMAIN cs \/ Order("delete mms", "mms") \in Q
    BY DEF Todo
  <2>2. c.type = "delete mms" => p = mms
    BY <1>2 DEF Suits, p, PlaceOf
  <2> QED BY <1>1, <2>1, <2>2, OneOrderLess
<1> QED BY <1>4, <1>5, <1>6, <1>7 DEF Todo

(* A context that is made is one that is wanted, and what else there is     *)
(* stays.                                                                   *)
LEMMA Added ==
    ASSUME NEW Q \in SUBSET AllCommands, NEW c \in Q, NEW i, NEW want \in Settings, NEW cs, DOMAIN cs \subseteq Paths, NEW mms \in Mms \cup {None},
           Todo(Q, i, want, cs, mms), c.type \in {"add", "add mms"}, NEW p, Sim[p] = i,
           NEW mms1, IF c.type = "add" THEN p = c.key /\ mms1 = mms ELSE p \in Mms /\ mms1 = p,
           NEW cs1, cs1 = (p :> Unset) @@ cs
    PROVE  Todo(Q \ {c}, i, want, cs1, mms1)
<1>1. /\ DOMAIN cs1 = DOMAIN cs \cup {p} /\ cs1[p] = Unset
      /\ \A q \in DOMAIN cs : q # p => cs1[q] = cs[q]
  BY DEF :>, @@
<1>2. Suits(c, i, want, cs, mms)
  BY DEF Todo
<1>3. c.type = "add" => c.key \in Internet \cap DOMAIN want /\ c.key \notin DOMAIN cs
  BY <1>2 DEF Suits
<1>4. c.type = "add mms" => c.key = "mms" /\ "mms" \in DOMAIN want /\ mms = None
  BY <1>2 DEF Suits
<1>5. c.type \in CommandTypes
  BY OneOrderLess
<1>6. \A d \in Q \ {c} : Suits(d, i, want, cs1, mms1)
  <2> TAKE d \in Q \ {c}
  <2>1. Suits(d, i, want, cs, mms)
    BY DEF Todo
  <2>2. d # c /\ d = Order(d.type, d.key) /\ c = Order(c.type, c.key)
    BY OneOrderLess
  <2>3. CASE c.type = "add"
    <3>1. p \notin Mms /\ mms1 = mms /\ p = c.key
      BY <1>3, <2>3, KindsOfKeys
    <3>2. d.type = "add" => d.key # p
      BY <2>2, <2>3, <3>1
    <3> QED BY <1>1, <2>1, <3>1, <3>2 DEF Suits
  <2>4. CASE c.type = "add mms"
    <3>1. p \notin Internet /\ d.type # "add mms"
      BY <1>4, <2>1, <2>2, <2>4, KindsOfKeys DEF Suits
    <3> QED BY <1>1, <2>1, <3>1 DEF Suits
  <2> QED BY <2>3, <2>4
<1>7. \A k \in DOMAIN want : (k \in Internet => Sim[k] = i) /\ Met(k, Q \ {c}, want, cs1, mms1)
  <2> TAKE k \in DOMAIN want
  <2>1. (k \in Internet => Sim[k] = i) /\ Met(k, Q, want, cs, mms)
    BY DEF Todo
  <2>2. CASE k = c.key
    <3>1. PlaceOf(k, mms1) = p
      BY <1>3, <1>4, <1>5, <2>2, KindsOfKeys DEF PlaceOf
    <3>2. PlaceOf(k, mms) \notin DOMAIN cs
      BY <1>3, <1>4, <2>2, KindsOfKeys DEF PlaceOf
    <3>3. want[k] = Unset \/ Order("set", k) \in Q
      BY <2>1, <3>2 DEF Met
    <3>4. want[k] = Unset \/ Order("set", k) \in Q \ {c}
      BY <3>3, OneOrderLess
    <3>5. PlaceOf(k, mms1) \in DOMAIN cs1 /\ cs1[PlaceOf(k, mms1)] = Unset
      BY <1>1, <3>1
    <3> QED BY <2>1, <3>4, <3>5 DEF Met
  <2>3. CASE k # c.key
    <3>1. k \in Keys
      BY SettingsAre
    <3>2. PlaceOf(k, mms1) = PlaceOf(k, mms) /\ (PlaceOf(k, mms) \in DOMAIN cs => PlaceOf(k, mms) # p)
      BY <1>3, <1>4, <2>3, <3>1, KindsOfKeys DEF PlaceOf, Keys
    <3>3. \A type : Order(type, k) \in Q => Order(type, k) \in Q \ {c}
      BY <2>3, OneOrderLess
    <3>4. Making(k) \in Q => Making(k) \in Q \ {c}
      BY <3>3 DEF Making
    <3> QED BY <1>1, <2>1, <3>2, <3>3, <3>4 DEF Met
  <2> QED BY <2>2, <2>3
<1>8. \A q \in DOMAIN cs1 \cap Internet : Sim[q] = i /\ q \notin DOMAIN want => Order("delete", q) \in Q \ {c}
  <2> TAKE q \in DOMAIN cs1 \cap Internet
  <2> HAVE Sim[q] = i /\ q \notin DOMAIN want
  <2>1. q # p
    BY <1>3, KindsOfKeys
  <2>2. Order("delete", q) \in Q
    BY <1>1, <2>1 DEF Todo
  <2> QED BY <2>2, OneOrderLess
<1>9. "mms" \notin DOMAIN want => mms1 \notin DOMAIN cs1 \/ Order("delete mms", "mms") \in Q \ {c}
  <2> HAVE "mms" \notin DOMAIN want
  <2>1. mms \notin DOMAIN cs \/ Order("delete mms", "mms") \in Q
    BY DEF Todo
  <2>2. mms1 = mms /\ p # mms
    BY <1>3, <1>4, KindsOfKeys
  <2> QED BY <1>1, <2>1, <2>2, OneOrderLess
<1>10. mms1 # None => Sim[mms1] = i
  BY DEF Todo
<1> QED BY <1>6, <1>7, <1>8, <1>9, <1>10 DEF Todo

(* A value that is set or cleared is the one that is wanted.                *)
LEMMA ValueSet ==
    ASSUME NEW Q \in SUBSET AllCommands, NEW c \in Q, NEW i, NEW want \in Settings, NEW cs, DOMAIN cs \subseteq Paths,
           NEW mms \in Mms \cup {None}, Todo(Q, i, want, cs, mms), c.type \in {"set", "clear"},
           NEW p, p = PlaceOf(c.key, mms), p \in DOMAIN cs,
           NEW cs1, cs1 = ((p :> IF c.type = "set" THEN want[c.key] ELSE Unset) @@ cs)
    PROVE  Todo(Q \ {c}, i, want, cs1, mms)
<1>1. /\ DOMAIN cs1 = DOMAIN cs /\ \A q \in DOMAIN cs : q # p => cs1[q] = cs[q]
      /\ cs1[p] = IF c.type = "set" THEN want[c.key] ELSE Unset
  <2> DEFINE v == IF c.type = "set" THEN want[c.key] ELSE Unset
  <2> HIDE DEF v
  <2>1. cs1 = [q \in {p} \cup DOMAIN cs |-> IF q = p THEN v ELSE cs[q]]
    BY DEF :>, @@, v
  <2>2. DOMAIN cs1 = DOMAIN cs /\ cs1[p] = v
    BY <2>1
  <2> QED BY <2>1, <2>2 DEF v
<1>2. Suits(c, i, want, cs, mms)
  BY DEF Todo
<1>3. c.key \in DOMAIN want => cs1[p] = want[c.key]
  BY <1>1, <1>2 DEF Suits
<1>4. \A d \in Q \ {c} : Suits(d, i, want, cs1, mms)
  BY <1>1 DEF Todo, Suits
<1>5. \A k \in DOMAIN want : (k \in Internet => Sim[k] = i) /\ Met(k, Q \ {c}, want, cs1, mms)
  <2> TAKE k \in DOMAIN want
  <2>1. (k \in Internet => Sim[k] = i) /\ Met(k, Q, want, cs, mms)
    BY DEF Todo
  <2>2. CASE k = c.key
    BY <1>1, <1>3, <2>1, <2>2 DEF Met
  <2>3. CASE k # c.key
    <3>1. k \in Keys /\ c.key \in Keys
      BY SettingsAre, OneOrderLess
    <3>2. PlaceOf(k, mms) # p
      BY <2>3, <3>1, KindsOfKeys DEF PlaceOf, Keys
    <3>3. \A type : Order(type, k) \in Q => Order(type, k) \in Q \ {c}
      BY <2>3, OneOrderLess
    <3>4. Making(k) \in Q => Making(k) \in Q \ {c}
      BY <3>3 DEF Making
    <3> QED BY <1>1, <2>1, <3>2, <3>3, <3>4 DEF Met
  <2> QED BY <2>2, <2>3
<1>6. \A q \in DOMAIN cs1 \cap Internet : Sim[q] = i /\ q \notin DOMAIN want => Order("delete", q) \in Q \ {c}
  BY <1>1, OneOrderLess DEF Todo
<1>7. "mms" \notin DOMAIN want => mms \notin DOMAIN cs1 \/ Order("delete mms", "mms") \in Q \ {c}
  BY <1>1, OneOrderLess DEF Todo
<1> QED BY <1>4, <1>5, <1>6, <1>7 DEF Todo

(* A command that oFono can make nothing of is not needed.                  *)
LEMMA NotNeeded ==
    ASSUME NEW Q \in SUBSET AllCommands, NEW c \in Q, NEW i, NEW want \in Settings, NEW cs, DOMAIN cs \subseteq Paths,
           NEW mms \in Mms \cup {None}, Todo(Q, i, want, cs, mms), c.type \notin {"add", "add mms"},
           c.key \in DOMAIN want => c.type \notin {"set", "clear"},
           PlaceOf(c.key, mms) \notin DOMAIN cs
    PROVE  Todo(Q \ {c}, i, want, cs, mms)
<1>1. Suits(c, i, want, cs, mms) /\ c.type \in CommandTypes
  BY OneOrderLess DEF Todo
<1>2. c.key \notin DOMAIN want
  BY <1>1 DEF Suits, CommandTypes
<1>3. \A k \in DOMAIN want : (k \in Internet => Sim[k] = i) /\ Met(k, Q \ {c}, want, cs, mms)
  <2> TAKE k \in DOMAIN want
  <2>1. (k \in Internet => Sim[k] = i) /\ Met(k, Q, want, cs, mms)
    BY DEF Todo
  <2>2. \A type : Order(type, k) \in Q => Order(type, k) \in Q \ {c}
    BY <1>2, OneOrderLess
  <2>3. Making(k) \in Q => Making(k) \in Q \ {c}
    BY <2>2 DEF Making
  <2> QED BY <2>1, <2>2, <2>3 DEF Met
<1>4. \A q \in DOMAIN cs \cap Internet : Sim[q] = i /\ q \notin DOMAIN want => Order("delete", q) \in Q \ {c}
  <2> TAKE q \in DOMAIN cs \cap Internet
  <2> HAVE Sim[q] = i /\ q \notin DOMAIN want
  <2>1. Order("delete", q) \in Q
    BY DEF Todo
  <2>2. q # c.key
    BY KindsOfKeys DEF PlaceOf
  <2> QED BY <2>1, <2>2, OneOrderLess
<1>5. "mms" \notin DOMAIN want => mms \notin DOMAIN cs \/ Order("delete mms", "mms") \in Q \ {c}
  <2>1. c.type = "delete mms" => PlaceOf(c.key, mms) = mms
    BY <1>1 DEF Suits, PlaceOf
  <2> QED BY <2>1, OneOrderLess DEF Todo
<1> QED BY <1>3, <1>4, <1>5 DEF Todo

(* What is passed over is not about a context that is wanted.               *)
LEMMA NoneForgotten ==
    ASSUME NEW Q \in SUBSET AllCommands, NEW i, NEW want \in Settings, NEW cs, NEW mms, Todo(Q, i, want, cs, mms),
           NEW R \in SUBSET Q, \A c \in Q \ R : c.type \in {"set", "clear"} /\ c.key \notin DOMAIN want
    PROVE  Todo(R, i, want, cs, mms)
<1>1. ASSUME NEW type, NEW key, Order(type, key) \in Q, type \notin {"set", "clear"} \/ key \in DOMAIN want
      PROVE  Order(type, key) \in R
  <2>1. Order(type, key).type = type /\ Order(type, key).key = key
    BY DEF Order
  <2> QED BY <1>1, <2>1
<1>2. \A k \in DOMAIN want : (k \in Internet => Sim[k] = i) /\ Met(k, R, want, cs, mms)
  BY <1>1 DEF Todo, Met, Making
<1> QED BY <1>1, <1>2 DEF Todo

(* Once contexts are made each one that is wanted is there.                 *)
LEMMA WantedAreThere ==
    ASSUME NEW Q \in SUBSET AllCommands, NEW i, NEW want \in Settings, NEW cs, DOMAIN cs \subseteq Paths,
           NEW mms \in Mms \cup {None}, Todo(Q, i, want, cs, mms),
           \A c \in Q : c.type \in {"set", "clear"}, NEW k \in DOMAIN want
    PROVE  PlaceOf(k, mms) \in DOMAIN cs /\ Sim[PlaceOf(k, mms)] = i
<1>1. Making(k) \notin Q
  BY DEF Making, Order
<1>2. PlaceOf(k, mms) \in DOMAIN cs
  BY <1>1 DEF Todo, Met
<1>3. k \in Keys
  BY SettingsAre
<1> QED BY <1>2, <1>3, KindsOfKeys DEF Todo, PlaceOf, Keys

(* What others do to other SIMs changes nothing of what there is to do.     *)
LEMMA TodoKept ==
    ASSUME NEW Q, NEW i, NEW want \in Settings, NEW cs, DOMAIN cs \subseteq Paths, NEW cs1, DOMAIN cs1 \subseteq Paths,
           NEW mms \in Mms \cup {None}, Todo(Q, i, want, cs, mms),
           \A p \in Paths : Sim[p] = i => (p \in DOMAIN cs1 <=> p \in DOMAIN cs) /\ (p \in DOMAIN cs => cs1[p] = cs[p])
    PROVE  Todo(Q, i, want, cs1, mms)
<1>1. \A c \in Q : Suits(c, i, want, cs1, mms)
  BY KindsOfKeys DEF Todo, Suits
<1>2. \A k \in DOMAIN want : (k \in Internet => Sim[k] = i) /\ Met(k, Q, want, cs1, mms)
  <2> TAKE k \in DOMAIN want
  <2>1. (k \in Internet => Sim[k] = i) /\ Met(k, Q, want, cs, mms)
    BY DEF Todo
  <2>2. k \in Keys
    BY SettingsAre
  <2>3. PlaceOf(k, mms) \in DOMAIN cs => Sim[PlaceOf(k, mms)] = i
    BY <2>1, <2>2, KindsOfKeys DEF Todo, PlaceOf, Keys
  <2> QED BY <2>1, <2>3 DEF Met
<1>3. mms \notin DOMAIN cs <=> mms \notin DOMAIN cs1
  BY KindsOfKeys DEF Todo
<1> QED BY <1>1, <1>2, <1>3 DEF Todo

(* Nothing that is found comes before the first.                            *)
LEMMA FirstIsFirst ==
    ASSUME NEW paths, DOMAIN paths \subseteq Nat, NEW ps, NEW j \in DOMAIN paths, paths[j] \in ps
    PROVE  \E i \in DOMAIN paths : i <= j /\ First(paths, ps) = paths[i]
<1> DEFINE there == {i \in DOMAIN paths : paths[i] \in ps}
           least == CHOOSE i \in there : \A k \in there : i <= k
<1>1. First(paths, ps) = IF there = {} THEN None ELSE paths[least]
  BY DEF First
<1>2. there \in SUBSET Nat /\ j \in there /\ there \subseteq DOMAIN paths
  OBVIOUS
<1> HIDE DEF there
<1>3. least \in there /\ \A k \in there : least <= k
  BY <1>2, LeastIndex
<1> HIDE DEF least
<1> QED BY <1>1, <1>2, <1>3

(* Values are set last. *)
LEMMA SetsLast ==
    ASSUME NEW types, NEW t \in types, t \in CommandTypes, t \notin {"set", "clear"}
    PROVE  First(Commands, types) \notin {"set", "clear"}
<1>1. /\ Commands[1] = "delete" /\ Commands[2] = "delete mms" /\ Commands[3] = "add"
      /\ Commands[4] = "add mms" /\ Commands[5] = "set" /\ Commands[6] = "clear"
  BY DEF Commands
<1>2. DOMAIN Commands = 1..6
  BY DEF Commands
<1>3. DOMAIN Commands \subseteq Nat
  BY <1>2
<1> HIDE DEF Commands
<1>4. PICK j \in {1, 2, 3, 4} : Commands[j] = t
  BY <1>1 DEF CommandTypes
<1>5. j \in DOMAIN Commands
  BY <1>2, <1>4
<1>6. PICK i \in DOMAIN Commands : i <= j /\ First(Commands, types) = Commands[i]
  BY <1>3, <1>4, <1>5, FirstIsFirst
<1>7. i \in {1, 2, 3, 4}
  BY <1>2, <1>4, <1>6
<1> QED BY <1>1, <1>6, <1>7

(* What is begun next, and what is left then.                               *)
Begun(i, want, ctxs, mms) ==
    \/ /\ call' = "complete sync out" /\ cmds' = {}
       /\ Todo({}, i, want, ctxs, mms)
    \/ call' = "crashed"
    \/ /\ call' \in CommandTypes /\ at' \in Keys /\ Order(call', at') \notin cmds'
       /\ Todo(cmds' \cup {Order(call', at')}, i, want, ctxs, mms)
       /\ call' \in {"set", "clear"} => \A c \in cmds' : IsSet(c)

LEMMA NextOrder ==
    ASSUME NEW m, NEW cs \in SUBSET AllCommands, SyncOutStep(m, cs), NEW i, NEW want \in Settings,
           NEW ctxs, DOMAIN ctxs \subseteq Paths, m.mms \in Mms \cup {None},
           Todo(cs, i, want, ctxs, m.mms), \A p \in DOMAIN ctxs : Sim[p] = i => p \in m.proxies
    PROVE  Begun(i, want, ctxs, m.mms)
<1> USE DEF Begun
<1> DEFINE left == IF \E c \in cs : ~IsSet(c) THEN cs ELSE {c \in cs : ~Skipped(m, c)}
           type == First(Commands, {c.type : c \in left})
<1>1. left \in SUBSET AllCommands
  OBVIOUS
<1>2. IF left = {}
      THEN CompleteLater("complete sync out", "none", 1) /\ cmds' = {}
      ELSE \E c \in {d \in left : d.type = type} :
              /\ cmds' = left \ {c}
              /\ IF IsSet(c) /\ Target(m, c) = None
                 THEN call' = "crashed" /\ UNCHANGED <<at, quit, completions, cbErr>>
                 ELSE Await(type, c.key)
  BY DEF SyncOutStep
<1>3. Todo(left, i, want, ctxs, m.mms)
  <2>1. CASE \E c \in cs : ~IsSet(c)
    BY <2>1
  <2>2. CASE ~ \E c \in cs : ~IsSet(c)
    <3>1. left = {c \in cs : ~Skipped(m, c)}
      BY <2>2
    <3>2. \A c \in cs : c.type \in {"set", "clear"}
      BY <2>2 DEF IsSet
    <3> HIDE DEF left
    <3>3. \A c \in cs \ left : Skipped(m, c)
      BY <3>1
    <3>4. ASSUME NEW c \in cs \ left PROVE c.key \notin DOMAIN want
      <4>1. Target(m, c) \notin m.proxies
        BY <3>3 DEF Skipped
      <4>2. PlaceOf(c.key, m.mms) \notin m.proxies
        BY <4>1 DEF Target, PlaceOf
      <4>3. c.key \in DOMAIN want => PlaceOf(c.key, m.mms) \in DOMAIN ctxs /\ Sim[PlaceOf(c.key, m.mms)] = i
        BY <3>2, WantedAreThere
      <4> QED BY <4>2, <4>3
    <3>5. \A c \in cs \ left : c.type \in {"set", "clear"} /\ c.key \notin DOMAIN want
      BY <3>2, <3>4
    <3>6. left \in SUBSET cs
      BY <3>1
    <3> QED BY <3>5, <3>6, NoneForgotten
  <2> QED BY <2>1, <2>2
<1>4. CASE left = {}
  BY <1>2, <1>3, <1>4 DEF CompleteLater
<1>5. CASE left # {}
  <2>1. PICK c \in {d \in left : d.type = type} :
              /\ cmds' = left \ {c}
              /\ IF IsSet(c) /\ Target(m, c) = None
                 THEN call' = "crashed" /\ UNCHANGED <<at, quit, completions, cbErr>>
                 ELSE Await(type, c.key)
    BY <1>2, <1>5
  <2>2. ASSUME type \in {"set", "clear"}, NEW d \in left PROVE IsSet(d)
    <3>1. d.type \in CommandTypes
      BY <1>1 DEF AllCommands
    <3> QED BY <2>2, <3>1, SetsLast DEF IsSet
  <2> HIDE DEF left, type
  <2>3. c \in left /\ c.type = type /\ c = Order(c.type, c.key) /\ c.type \in CommandTypes /\ c.key \in Keys
    BY <1>1, <2>1, OneOrderLess
  <2>4. CASE call' = "crashed"
    BY <2>4
  <2>5. CASE call' = type /\ at' = c.key
    <3>1. Order(call', at') = c
      BY <2>3, <2>5
    <3>2. cmds' \cup {c} = left
      BY <2>1, <2>3
    <3> QED BY <1>3, <2>1, <2>2, <2>3, <2>5, <3>1, <3>2
  <2> QED BY <2>1, <2>4, <2>5 DEF Await
<1> QED BY <1>4, <1>5

-----------------------------------------------------------------------------
(* When a session is open what was listed is what there is, and there is a  *)
(* proxy for each context of it.                                            *)

Ready == phase = "open" \/ (call = "complete sync in" /\ cbErr = "none")

ReadyInv ==
    /\ phase = "open" => imsi \in unseen \/ Listed(imsi)
    /\ Ready \/ call = "context proxy" => imsi \in unseen \/ Of(imsi) \subseteq Modem.knows
    /\ Ready => Modem.knows = Modem.proxies

(* A listing leaves no context of the SIM unknown.                          *)
LEMMA KnowsUpdated ==
    ASSUME ContextsOK, NEW m, IsModem(m)
    PROVE  UpdateContexts(m).knows = m.knows \cup Of(sims[m.path])
<1> DEFINE there == Of(sims[m.path])
           ks == m.knows \cup there
           v == IF m.mms = None THEN First(MmsPaths, there) ELSE m.mms
           s == (IF m.mms = None THEN View(sims[m.path]) ELSE [k \in there \cap Internet |-> View(sims[m.path])[k]]) @@ m.settings
<1>1. UpdateContexts(m) = [m EXCEPT !.knows = ks, !.mms = v, !.settings = s]
  BY DEF UpdateContexts
<1> HIDE DEF ks, v, s
<1>2. UpdateContexts(m).knows = ks
  BY <1>1 DEF IsModem, ModemType
<1> QED BY <1>2 DEF ks

LEMMA NotReady ==
    ASSUME phase' # "open", call' \notin {"context proxy", "complete sync in"} \/ (call' = "complete sync in" /\ cbErr' # "none")
    PROVE  ReadyInv'
BY DEF ReadyInv, Ready

LEMMA ReadyKept ==
    ASSUME ReadyInv, Ready' => Ready, phase' = "open" => phase = "open",
           call' = "context proxy" => Ready \/ call = "context proxy",
           Ready \/ call = "context proxy" => imsi' = imsi /\ UNCHANGED modems /\ (imsi \in unseen' \/ (imsi \notin unseen /\ Untouched(imsi)))
    PROVE  ReadyInv'
<1>1. CASE ~(Ready' \/ call' = "context proxy")
  BY <1>1 DEF ReadyInv, Ready
<1>2. CASE Ready' \/ call' = "context proxy"
  <2>1. Ready \/ call = "context proxy"
    BY <1>2
  <2>2. imsi' = imsi /\ UNCHANGED modems /\ (imsi \in unseen' \/ (imsi \notin unseen /\ Untouched(imsi))) /\ UNCHANGED Modem
    BY <2>1 DEF Modem
  <2>3. ASSUME NEW i, i = imsi, imsi \notin unseen' PROVE (Listed(i) => Listed(i)') /\ Of(i)' = Of(i)
    BY <2>2, <2>3, KnownKept DEF Untouched
  <2>4. imsi' \notin unseen' => (Listed(imsi) => Listed(imsi)') /\ Of(imsi)' = Of(imsi)
    BY <2>2, <2>3 DEF Listed, Of
  <2>5. imsi' \notin unseen' => imsi \notin unseen
    BY <2>2
  <2> QED BY <2>1, <2>2, <2>4, <2>5 DEF ReadyInv
<1> QED BY <1>1, <1>2

LEMMA ReadyRead ==
    ASSUME TypeInv, SimInv, ListInv, ReadyInv,
           ConnmanProxyCreated \/ GetContextsDone \/ ContextProxyCreated \/ SyncInFailed \/ SyncInCancelled \/ CompleteSyncIn
    PROVE  ReadyInv'
<1> USE DEF TypeInv, None
<1>1. phase = "syncing in" /\ UNCHANGED <<contexts, unseen, imsi>>
  BY DEF ConnmanProxyCreated, GetContextsDone, ContextProxyCreated, SyncInFailed, SyncInCancelled, CompleteSyncIn, Replied,
         PlaceOK, InCalls, TaskCalls, stepRest, inRest, world
<1>2. CASE ConnmanProxyCreated \/ SyncInFailed \/ SyncInCancelled
  <2>1. UNCHANGED phase /\ (call' \in {"get contexts", "forgotten"} \/ (call' = "complete sync in" /\ cbErr' # "none"))
    BY <1>2 DEF ConnmanProxyCreated, SyncInFailed, SyncInCancelled, CompleteLater, Forget, Await, stepRest
  <2> QED BY <1>1, <2>1, NotReady
<1>3. ASSUME GetContextsDone \/ ContextProxyCreated PROVE ReadyInv'
  <2>1. /\ phase' = "syncing in"
        /\ call \in {"get contexts", "context proxy"}
        /\ GetProxies(modems'[imsi])
        /\ IF call = "get contexts" THEN modems' = [modems EXCEPT ![imsi] = UpdateContexts(modems[imsi])]
                                    ELSE modems' = [modems EXCEPT ![imsi].proxies = modems[imsi].proxies \cup {at}]
    BY <1>1, <1>3 DEF GetContextsDone, ContextProxyCreated, Replied, stepRest
  <2>2. imsi \in DOMAIN modems /\ IsModem(modems[imsi]) /\ sims[modems[imsi].path] = imsi /\ ContextsOK
    BY <1>1, <2>1 DEF PlaceOK, InCalls, TaskCalls, DataOK, SimInv, Searching, Modem
  <2>3. imsi \in unseen \/ Of(imsi) \subseteq modems'[imsi].knows
    <3>1. CASE call = "get contexts"
      <4>1. modems'[imsi] = UpdateContexts(modems[imsi])
        BY <2>1, <2>2, <3>1
      <4>2. UpdateContexts(modems[imsi]).knows = modems[imsi].knows \cup Of(imsi)
        BY <2>2, KnowsUpdated
      <4> QED BY <4>1, <4>2
    <3>2. CASE call = "context proxy"
      <4>1. modems'[imsi].knows = modems[imsi].knows
        <5> DEFINE m == modems[imsi]
                   ps == m.proxies \cup {at}
        <5>1. modems'[imsi] = [m EXCEPT !.proxies = ps]
          BY <2>1, <2>2, <3>2
        <5> HIDE DEF m, ps
        <5>2. IsModem(m)
          BY <2>2 DEF m
        <5>3. modems'[imsi].knows = m.knows
          BY <5>1, <5>2 DEF IsModem, ModemType
        <5> QED BY <5>3 DEF m
      <4> QED BY <3>2, <4>1 DEF ReadyInv, Modem
    <3> QED BY <2>1, <3>1, <3>2
  <2>4. Of(imsi)' = Of(imsi)
    BY <1>1 DEF Of
  <2>5. call' = "context proxy" \/ (call' = "complete sync in" /\ modems'[imsi].knows = modems'[imsi].proxies)
    BY <2>1 DEF GetProxies, CompleteLater, Await
  <2>6. Modem' = modems'[imsi]
    BY <1>1 DEF Modem
  <2> QED BY <1>1, <2>1, <2>3, <2>4, <2>5, <2>6 DEF ReadyInv, Ready
<1>4. CASE CompleteSyncIn
  <2>1. /\ call = "complete sync in" /\ UNCHANGED <<modems, contexts, unseen, imsi>> /\ call' = IF completions = 1 THEN None ELSE call
        /\ phase' = IF cbErr = "none" THEN "open" ELSE "closed"
    BY <1>1, <1>4 DEF CompleteSyncIn
  <2>2. call' = None
    BY <2>1 DEF CallOK
  <2>3. CASE cbErr # "none"
    BY <2>1, <2>2, <2>3, NotReady
  <2>4. CASE cbErr = "none"
    <3>1. imsi \in unseen \/ (Listed(imsi) /\ Of(imsi) \subseteq Modem.knows)
      BY <2>1, <2>4 DEF ReadyInv, Ready, ListInv
    <3>2. Modem.knows = Modem.proxies
      BY <2>1, <2>4 DEF ReadyInv, Ready
    <3>3. Modem' = Modem /\ Of(imsi)' = Of(imsi)
      BY <2>1 DEF Modem, Of
    <3>4. ASSUME NEW i, i = imsi, imsi \notin unseen PROVE Listed(i)'
      BY <2>1, <3>1, <3>4, AllUntouched, KnownKept
    <3>5. imsi' \in unseen' \/ Listed(imsi)'
      BY <2>1, <3>4 DEF Listed
    <3> QED BY <2>1, <2>2, <3>1, <3>2, <3>3, <3>5 DEF ReadyInv, Ready
  <2> QED BY <2>3, <2>4
<1> QED BY <1>2, <1>3, <1>4

(* Others change what is listed or worked on only in the sight of unseen.   *)
LEMMA OthersLeave ==
    ASSUME OthersChange
    PROVE  /\ UNCHANGED <<sims, modems, imsi, cmds, wanted, failed, at, call, cbErr, phase>> /\ unseen \subseteq unseen'
           /\ \A i \in Watched : i \in unseen' \/ Untouched(i)
<1>1. PICK p \in Paths :
         /\ \/ /\ p \in DOMAIN contexts
               /\ contexts' = [q \in DOMAIN contexts \ {p} |-> contexts[q]]
            \/ /\ p \in DOMAIN contexts \cup OthersMake
               /\ contexts' = (p :> Theirs) @@ contexts /\ contexts' # contexts
         /\ unseen' = unseen \cup (Watched \cap {Sim[p]})
  BY DEF OthersChange
<1>2. UNCHANGED <<sims, modems, imsi, cmds, wanted, failed, at, call, cbErr, phase>>
  BY DEF OthersChange, otherRest, outVars, callVars, apiVars
<1>3. /\ \A q : q # p => (q \in DOMAIN contexts' <=> q \in DOMAIN contexts)
      /\ \A q \in DOMAIN contexts' : q # p => contexts'[q] = contexts[q]
  <2>1. CASE contexts' = [q \in DOMAIN contexts \ {p} |-> contexts[q]]
    BY <2>1
  <2>2. CASE contexts' = (p :> Theirs) @@ contexts
    <3>1. contexts' = [q \in {p} \cup DOMAIN contexts |-> IF q = p THEN Theirs ELSE contexts[q]]
      BY <2>2 DEF :>, @@
    <3> QED BY <3>1
  <2> QED BY <1>1, <2>1, <2>2
<1>4. \A i : i # Sim[p] => Untouched(i)
  BY <1>3, OthersUntouched
<1> QED BY <1>1, <1>2, <1>4

LEMMA ReadyElse ==
    ASSUME TypeInv, ReadyInv,
           \/ SyncIn \/ SyncOut \/ Abort \/ Cancel
           \/ ManagerProxyCreated \/ GetModemsDone \/ SimProxyCreated
           \/ GetSimPropertiesDone \/ SimPropertiesFailed \/ TaskFailed \/ TaskCancelled \/ ModemsDone
           \/ CommandDone \/ ContextAdded \/ NewProxyCreated \/ CommandFailed \/ SyncOutCancelled \/ CompleteSyncOut
           \/ OthersChange \/ SwapSims \/ Restart \/ UNCHANGED vars
    PROVE  ReadyInv'
<1> USE DEF TypeInv, None
<1>1. CASE SyncIn
  <2>1. phase' = "syncing in" /\ call' \in {"get contexts", "connman proxy", "manager proxy"}
    BY <1>1 DEF SyncIn, GetContexts, Await
  <2> QED BY <2>1, NotReady
<1>2. CASE SyncOut
  <2>1. /\ phase = "open" /\ phase' = "syncing out"
        /\ SyncOutStep(Modem, Analyse(Modem, wanted')) /\ wanted' \in Edited(Modem.settings)
    BY <1>2 DEF SyncOut
  <2>2. Modem.settings \in Settings
    BY <2>1 DEF PlaceOK, DataOK, IsModem, ModemType, Modem
  <2>3. Analyse(Modem, wanted') \in SUBSET AllCommands
    BY <2>1, <2>2, EditedType, AnalyseType
  <2>4. call' \notin {"context proxy", "complete sync in"}
    BY <2>1, <2>3, SyncOutStepType DEF AllCommands, CommandTypes
  <2> QED BY <2>1, <2>4, NotReady
<1>3. CASE Abort
  <2>1. phase = "open" /\ owed = 0 /\ phase' = "closed" /\ UNCHANGED call
    BY <1>3 DEF Abort, callVars
  <2>2. call = None
    BY <2>1, NothingOwed
  <2> QED BY <2>1, <2>2, NotReady
<1>4. CASE Cancel \/ SwapSims \/ UNCHANGED vars
  <2>1. UNCHANGED <<contexts, modems, imsi, unseen, call, cbErr, phase>>
    BY <1>4 DEF Cancel, SwapSims, otherRest, vars, world, callVars, apiVars
  <2>2. Untouched(imsi)
    BY <2>1, AllUntouched
  <2>3. Ready' => Ready
    BY <2>1 DEF Ready
  <2> QED BY <2>1, <2>2, <2>3, ReadyKept
<1>5. CASE \/ ManagerProxyCreated \/ GetModemsDone \/ SimProxyCreated
           \/ GetSimPropertiesDone \/ SimPropertiesFailed \/ TaskFailed \/ TaskCancelled
  <2>1. call' \in TaskCalls \cup {"modems done"} /\ UNCHANGED phase /\ call \in TaskCalls
    BY <1>5 DEF ManagerProxyCreated, GetModemsDone, SimProxyCreated, GetSimPropertiesDone, SimPropertiesFailed, TaskFailed,
         TaskCancelled, GetImsiNumbers, FinishTask, CompleteLater, Await, TaskCalls, taskRest, Replied
  <2>2. phase = "syncing in"
    BY <2>1 DEF PlaceOK, InCalls
  <2> QED BY <2>1, <2>2, NotReady DEF TaskCalls
<1>6. CASE ModemsDone
  <2>1. /\ call = "modems done" /\ UNCHANGED phase
        /\ \/ call' \in {"get contexts", "connman proxy"} \/ (call' = "complete sync in" /\ cbErr' # "none")
    BY <1>6 DEF ModemsDone, GetContexts, Await, CompleteLater
  <2>2. phase = "syncing in"
    BY <2>1 DEF PlaceOK
  <2> QED BY <2>1, <2>2, NotReady
<1>7. CASE CommandDone \/ ContextAdded \/ NewProxyCreated \/ CommandFailed \/ SyncOutCancelled
  <2>1. call \in CommandTypes \cup {"new proxy"} /\ UNCHANGED phase
    BY <1>7, OutCallsAre DEF CommandDone, ContextAdded, NewProxyCreated, CommandFailed, SyncOutCancelled, Replied, CommandTypes, outRest, apiVars
  <2>2. phase = "syncing out"
    BY <2>1 DEF PlaceOK
  <2>3. call' \notin {"context proxy", "complete sync in"}
    <3>1. ASSUME NEW m, SyncOutStep(m, cmds) PROVE call' \notin {"context proxy", "complete sync in"}
      <4>1. cmds \in SUBSET AllCommands
        BY DEF CommandsOK
      <4> QED BY <3>1, <4>1, SyncOutStepType DEF AllCommands, CommandTypes
    <3> QED BY <1>7, <3>1 DEF CommandDone, ContextAdded, NewProxyCreated, CommandFailed, SyncOutCancelled, CompleteLater, Await
  <2> QED BY <2>1, <2>2, <2>3, NotReady
<1>8. CASE CompleteSyncOut \/ Restart
  <2>1. phase' = "closed" /\ call' = None
    BY <1>8 DEF CompleteSyncOut, Restart
  <2> QED BY <2>1, NotReady
<1>9. CASE OthersChange
  <2>1. /\ UNCHANGED <<modems, imsi, call, cbErr, phase>> /\ unseen \subseteq unseen'
        /\ imsi \in Watched => imsi \in unseen' \/ (imsi \notin unseen /\ Untouched(imsi))
    BY <1>9, OthersLeave
  <2>2. Ready' => Ready
    BY <2>1 DEF Ready
  <2>3. Ready \/ call = "context proxy" => imsi \in Watched
    BY DEF Ready, PlaceOK, InCalls, TaskCalls, Watched
  <2> QED BY <2>1, <2>2, <2>3, ReadyKept
<1> QED BY <1>1, <1>2, <1>3, <1>4, <1>5, <1>6, <1>7, <1>8, <1>9

LEMMA ReadyInvariant == ASSUME ~CanSwap, "get contexts" \notin CancelIn PROVE Spec => []ReadyInv
<1>1. Init => ReadyInv
  BY DEF Init, ReadyInv, Ready, None
<1>2. TypeInv /\ SimInv /\ ListInv /\ ReadyInv /\ [Next]_vars => ReadyInv'
  BY ReadyRead, ReadyElse DEF Next, Chain, Local
<1> QED BY <1>1, <1>2, TypeInvariant, SimInvariant, ListInvariant, PTL DEF Spec

-----------------------------------------------------------------------------
(* While no call fails that need not, the commands that are left, with the  *)
(* one under way, make the contexts of the SIM those that are wanted.       *)

Pending == cmds \cup (IF call \in CommandTypes THEN {Order(call, at)} ELSE {})

Writing ==
    /\ phase = "syncing out" /\ call # "crashed" /\ ~(call = "complete sync out" /\ cbErr # "none")
    /\ ~failed /\ imsi \notin unseen

StoreInv == Writing =>
    /\ Todo(Pending, imsi, wanted, contexts, Modem.mms)
    /\ call \in CommandTypes => at \in Keys /\ Order(call, at) \notin cmds
    /\ call \in {"set", "clear"} => \A c \in cmds : IsSet(c)
    /\ call = "complete sync out" => cmds = {}
    /\ Of(imsi) \subseteq Modem.proxies \cup (IF call = "new proxy" THEN {at} ELSE {})

LEMMA OrderIn == ASSUME NEW type, NEW keys, NEW k \in keys PROVE Order(type, k) \in All(type, keys)
BY DEF Order, All

(* What is listed of a SIM, one by one. *)
LEMMA ViewIs ==
    ASSUME ContextsOK, NEW i, NEW mms, mms = First(MmsPaths, Of(i)), NEW old, old = View(i)
    PROVE  /\ mms \in Mms \cup {None} /\ (mms # None => Sim[mms] = i) /\ (mms = None => Mms \cap Of(i) = {})
           /\ \A k \in Internet : k \in DOMAIN old <=> k \in Of(i)
           /\ "mms" \in DOMAIN old <=> mms # None
           /\ \A k \in DOMAIN old : PlaceOf(k, mms) \in DOMAIN contexts /\ contexts[PlaceOf(k, mms)] = old[k]
<1>1. DOMAIN old = (Of(i) \cap Internet) \cup (IF mms = None THEN {} ELSE {"mms"})
  BY ViewType
<1>2. old = [k \in (Of(i) \cap Internet) \cup (IF mms = None THEN {} ELSE {"mms"}) |-> contexts[IF k = "mms" THEN mms ELSE k]]
  BY DEF View
<1>3. mms \in (Mms \cap Of(i)) \cup {None} /\ (Mms \cap Of(i) # {} => mms \in Mms \cap Of(i))
  BY FirstFound, SimsAssumption DEF Mms
<1>4. None \notin Of(i) /\ "mms" \notin Of(i)
  BY SimsAssumption DEF Of, ContextsOK, None
<1>5. \A k \in DOMAIN old : PlaceOf(k, mms) \in Of(i) /\ contexts[PlaceOf(k, mms)] = old[k]
  <2> TAKE k \in DOMAIN old
  <2>1. old[k] = contexts[PlaceOf(k, mms)]
    BY <1>1, <1>2 DEF PlaceOf
  <2>2. PlaceOf(k, mms) \in Of(i)
    BY <1>1, <1>3, <1>4 DEF PlaceOf
  <2> QED BY <2>1, <2>2
<1>6. \A p \in Of(i) : p \in DOMAIN contexts /\ Sim[p] = i
  BY DEF Of
<1> QED BY <1>1, <1>3, <1>4, <1>5, <1>6, KindsOfKeys

(* prv_ofono_plugin_anaylse makes a plan that is complete.                  *)
LEMMA Planned ==
    ASSUME ContextsOK, NEW m, IsModem(m), m.settings = View(imsi), m.mms = First(MmsPaths, Of(imsi)),
           NEW want \in Edited(m.settings)
    PROVE  Todo(Analyse(m, want), imsi, want, contexts, m.mms)
<1> DEFINE old == m.settings
           mms == m.mms
           plan == Analyse(m, want)
<1>1. /\ mms \in Mms \cup {None} /\ (mms # None => Sim[mms] = imsi) /\ (mms = None => Mms \cap Of(imsi) = {})
      /\ \A k \in Internet : k \in DOMAIN old <=> k \in Of(imsi)
      /\ "mms" \in DOMAIN old <=> mms # None
      /\ \A k \in DOMAIN old : PlaceOf(k, mms) \in DOMAIN contexts /\ contexts[PlaceOf(k, mms)] = old[k]
  BY ViewIs
<1>2. old \in Settings /\ want \in Settings
  BY EditedType DEF IsModem, ModemType
<1>3. DOMAIN old \subseteq Keys /\ DOMAIN want \subseteq Keys
  BY <1>2, SettingsAre
<1>4. /\ \A k \in DOMAIN want \cap Internet : Sim[k] = imsi
      /\ "mms" \in DOMAIN want /\ mms = None => \E p \in Mms : Sim[p] = imsi
  <2> DEFINE mine == {IF p \in Mms THEN "mms" ELSE p : p \in {q \in Paths : Sim[q] = imsi}}
  <2>1. PICK ks \in SUBSET (DOMAIN old \cup mine) : want \in [ks -> Values]
    BY DEF Edited
  <2>2. DOMAIN want \subseteq DOMAIN old \cup mine
    BY <2>1
  <2>3. \A k \in mine : \E p \in Paths : Sim[p] = imsi /\ k = IF p \in Mms THEN "mms" ELSE p
    OBVIOUS
  <2>4. \A k \in mine \cap Internet : Sim[k] = imsi
    BY <2>3, KindsOfKeys
  <2>5. "mms" \in mine => \E p \in Mms : Sim[p] = imsi
    BY <2>3, SimsAssumption
  <2>6. \A k \in DOMAIN old \cap Internet : Sim[k] = imsi
    BY <1>1 DEF Of
  <2> HIDE DEF mine
  <2> QED BY <1>1, <2>2, <2>4, <2>5, <2>6
<1>5. plan = All("delete", (DOMAIN old \cap Internet) \ DOMAIN want)
        \cup All("delete mms", IF mms = None THEN {} ELSE {"mms"} \ DOMAIN want)
        \cup All("add", (DOMAIN want \cap Internet) \ DOMAIN old)
        \cup All("add mms", IF mms = None THEN {"mms"} \cap DOMAIN want ELSE {})
        \cup All("set", {k \in DOMAIN want : want[k] # Unset /\ (k \in DOMAIN old => old[k] # want[k])})
        \cup All("clear", {k \in DOMAIN old : IF k \in DOMAIN want THEN want[k] = Unset /\ old[k] # Unset ELSE TRUE})
  BY DEF Analyse
<1>6. mms \in Mms => mms \in Paths
  BY KindsOfKeys
<1> HIDE DEF old, mms, plan
<1>7. \A c \in plan : Suits(c, imsi, want, contexts, mms)
  <2> TAKE c \in plan
  <2>1. c.key \in Internet => Sim[c.key] = imsi
    <3>1. c.key \in DOMAIN old \cup DOMAIN want
      BY <1>1, <1>5 DEF All
    <3> QED BY <1>1, <1>4, <3>1 DEF Of
  <2>2. c.type = "delete" => c.key \in Internet \ DOMAIN want
    BY <1>5 DEF All
  <2>3. c.type = "delete mms" => c.key = "mms" /\ "mms" \notin DOMAIN want
    BY <1>5 DEF All
  <2>4. c.type = "add" => c.key \in Internet \cap DOMAIN want /\ c.key \notin DOMAIN contexts
    <3>1. c.type = "add" => c.key \in (Internet \cap DOMAIN want) \ DOMAIN old
      BY <1>5 DEF All
    <3> QED BY <1>1, <1>4, <3>1 DEF Of
  <2>5. c.type = "add mms" => c.key = "mms" /\ "mms" \in DOMAIN want /\ mms = None /\ \E p \in Mms \ DOMAIN contexts : Sim[p] = imsi
    <3>1. c.type = "add mms" => c.key = "mms" /\ "mms" \in DOMAIN want /\ mms = None
      BY <1>5 DEF All
    <3> QED BY <1>1, <1>4, <3>1 DEF Of
  <2>6. c.type = "set" => c.key \in DOMAIN want
    BY <1>5 DEF All
  <2>7. c.type = "clear" => (c.key \in DOMAIN want => want[c.key] = Unset)
    BY <1>5 DEF All
  <2> QED BY <2>1, <2>2, <2>3, <2>4, <2>5, <2>6, <2>7 DEF Suits
<1>8. \A k \in DOMAIN want : (k \in Internet => Sim[k] = imsi) /\ Met(k, plan, want, contexts, mms)
  <2> TAKE k \in DOMAIN want
  <2>1. want[k] # Unset /\ (k \in DOMAIN old => old[k] # want[k]) => Order("set", k) \in plan
    BY <1>5, OrderIn
  <2>2. CASE k \in DOMAIN old
    <3>1. want[k] = Unset /\ old[k] # Unset => Order("clear", k) \in plan
      BY <1>5, <2>2, OrderIn
    <3> QED BY <1>1, <1>4, <2>1, <2>2, <3>1 DEF Met
  <2>3. CASE k \notin DOMAIN old
    <3>1. k \in Internet \/ k = "mms"
      BY <1>3 DEF Keys
    <3>2. k \in Internet => Order("add", k) \in plan
      BY <1>5, <2>3, OrderIn
    <3>3. k = "mms" => Order("add mms", k) \in plan
      BY <1>1, <1>5, <2>3, OrderIn
    <3>4. Making(k) \in plan
      BY <3>1, <3>2, <3>3, KindsOfKeys DEF Making
    <3> QED BY <1>4, <2>1, <2>3, <3>4 DEF Met
  <2> QED BY <2>2, <2>3
<1>9. \A p \in DOMAIN contexts \cap Internet : Sim[p] = imsi /\ p \notin DOMAIN want => Order("delete", p) \in plan
  <2> TAKE p \in DOMAIN contexts \cap Internet
  <2> HAVE Sim[p] = imsi /\ p \notin DOMAIN want
  <2>1. p \in (DOMAIN old \cap Internet) \ DOMAIN want
    BY <1>1 DEF Of
  <2> QED BY <1>5, <2>1, OrderIn
<1>10. "mms" \notin DOMAIN want => mms \notin DOMAIN contexts \/ Order("delete mms", "mms") \in plan
  <2>1. mms = None => mms \notin DOMAIN contexts
    BY KindsOfKeys DEF ContextsOK
  <2>2. mms # None /\ "mms" \notin DOMAIN want => Order("delete mms", "mms") \in plan
    BY <1>5, OrderIn
  <2> QED BY <2>1, <2>2
<1>11. Todo(plan, imsi, want, contexts, mms)
  BY <1>1, <1>7, <1>8, <1>9, <1>10 DEF Todo
<1> QED BY <1>11 DEF plan, mms

(* prv_sync_out_step goes on with what there is to do.                      *)
LEMMA NextKept ==
    ASSUME DataOK', wanted' \in Settings, phase' = "syncing out" => imsi' \in DOMAIN modems', NEW cs \in SUBSET AllCommands,
           phase' = "syncing out",
           SyncOutStep(modems'[imsi'], cs),
           Todo(cs, imsi', wanted', contexts', modems'[imsi'].mms),
           \A p \in DOMAIN contexts' : Sim[p] = imsi' => p \in modems'[imsi'].proxies
    PROVE  StoreInv'
<1>1. DOMAIN contexts' \subseteq Paths /\ modems'[imsi'].mms \in Mms \cup {None}
  BY DEF DataOK, ContextsOK, IsModem, ModemType
<1>2. Of(imsi)' \subseteq modems'[imsi'].proxies /\ Modem' = modems'[imsi']
  BY DEF Of, Modem
<1> DEFINE i == imsi'
           want == wanted'
           ctxs == contexts'
           m == modems'[imsi']
<1>3. \/ /\ call' = "complete sync out" /\ cmds' = {}
         /\ Todo({}, i, want, ctxs, m.mms)
      \/ call' = "crashed"
      \/ /\ call' \in CommandTypes /\ at' \in Keys /\ Order(call', at') \notin cmds'
         /\ Todo(cmds' \cup {Order(call', at')}, i, want, ctxs, m.mms)
         /\ call' \in {"set", "clear"} => \A c \in cmds' : IsSet(c)
  <2>1. want \in Settings /\ DOMAIN ctxs \subseteq Paths /\ m.mms \in Mms \cup {None}
    BY <1>1
  <2>2. SyncOutStep(m, cs)
    OBVIOUS
  <2>3. Todo(cs, i, want, ctxs, m.mms)
    OBVIOUS
  <2>4. \A p \in DOMAIN ctxs : Sim[p] = i => p \in m.proxies
    OBVIOUS
  <2> HIDE DEF i, want, ctxs, m
  <2>5. Begun(i, want, ctxs, m.mms)
    BY <2>1, <2>2, <2>3, <2>4, NextOrder
  <2> QED BY <2>5 DEF Begun
<1>4. CASE call' = "complete sync out" /\ cmds' = {} /\ Todo({}, i, want, ctxs, m.mms)
  <2>1. Pending' = {}
    BY <1>4 DEF Pending, CommandTypes
  <2> QED BY <1>2, <1>4, <2>1 DEF StoreInv, CommandTypes
<1>5. CASE call' = "crashed"
  BY <1>5 DEF StoreInv, Writing
<1>6. CASE /\ call' \in CommandTypes /\ at' \in Keys /\ Order(call', at') \notin cmds'
           /\ Todo(cmds' \cup {Order(call', at')}, i, want, ctxs, m.mms)
           /\ call' \in {"set", "clear"} => \A c \in cmds' : IsSet(c)
  <2>1. Pending' = cmds' \cup {Order(call', at')}
    BY <1>6 DEF Pending
  <2>2. call' \notin {"complete sync out", "new proxy"}
    BY <1>6 DEF CommandTypes
  <2> QED BY <1>2, <1>6, <2>1, <2>2 DEF StoreInv
<1> QED BY <1>3, <1>4, <1>5, <1>6

(* What there is to do when the command under way is done.                  *)
LEMMA UnderWay ==
    ASSUME TypeInv, SimInv, StoreInv, Writing, call \in CommandTypes
    PROVE  /\ Pending \in SUBSET AllCommands /\ Order(call, at) \in Pending /\ Pending \ {Order(call, at)} = cmds
           /\ Order(call, at).type = call /\ Order(call, at).key = at
           /\ Todo(Pending, imsi, wanted, contexts, Modem.mms) /\ Suits(Order(call, at), imsi, wanted, contexts, Modem.mms)
           /\ \A p : Here(p) <=> Sim[p] = imsi
           /\ call # "add mms" => CommandPath = PlaceOf(at, Modem.mms)
           /\ DOMAIN contexts \subseteq Paths /\ wanted \in Settings /\ Modem.mms \in Mms \cup {None} /\ imsi \in DOMAIN modems
           /\ at \in Keys
<1> USE DEF TypeInv
<1>1. Pending = cmds \cup {Order(call, at)} /\ Order(call, at) \notin cmds
  BY DEF Pending, StoreInv
<1>2. phase = "syncing out" /\ imsi \in DOMAIN modems
  BY DEF Writing, PlaceOK
<1>3. sims[Modem.path] = imsi
  <2>1. call \notin Searching
    BY DEF CommandTypes, Searching, TaskCalls
  <2> QED BY <1>2, <2>1 DEF SimInv
<1>4. Todo(Pending, imsi, wanted, contexts, Modem.mms)
  BY DEF StoreInv
<1>5. Suits(Order(call, at), imsi, wanted, contexts, Modem.mms) /\ Order(call, at).type = call /\ Order(call, at).key = at
  BY <1>1, <1>4 DEF Todo, Order
<1>6. at \in Keys
  BY DEF StoreInv
<1>7. Pending \in SUBSET AllCommands
  BY <1>1, <1>6 DEF AllCommands, Order, CommandsOK
<1>8. call # "add mms" => CommandPath = PlaceOf(at, Modem.mms)
  BY DEF CommandPath, PlaceOf
<1> QED BY <1>1, <1>2, <1>3, <1>4, <1>5, <1>6, <1>7, <1>8 DEF Here, DataOK, ContextsOK, IsModem, ModemType, Modem, CommandsOK

(* A command is needed, and oFono can carry it out; or it can be left out.  *)
LEMMA CommandLeft ==
    ASSUME TypeInv, SimInv, StoreInv, Writing, call \in CommandTypes, ~CanApply
    PROVE  Todo(cmds, imsi, wanted, contexts, Modem.mms)
<1> DEFINE c == Order(call, at)
           mms == Modem.mms
           place == PlaceOf(at, mms)
<1>1. /\ Pending \in SUBSET AllCommands /\ c \in Pending /\ Pending \ {c} = cmds
      /\ c.type = call /\ c.key = at
      /\ Todo(Pending, imsi, wanted, contexts, mms) /\ Suits(c, imsi, wanted, contexts, mms)
      /\ \A p : Here(p) <=> Sim[p] = imsi
      /\ call # "add mms" => CommandPath = place
      /\ DOMAIN contexts \subseteq Paths /\ wanted \in Settings /\ mms \in Mms \cup {None}
      /\ at \in Keys
  BY UnderWay
<1>2. ~(CommandPath \in Paths /\ Here(CommandPath) /\ (CommandPath \in DOMAIN contexts <=> call \notin {"add", "add mms"}))
  BY DEF CanApply
<1> HIDE DEF c, mms
<1>3. call # "add"
  <2> SUFFICES ASSUME call = "add" PROVE FALSE
    OBVIOUS
  <2>1. at \in Internet /\ at \notin DOMAIN contexts /\ Sim[at] = imsi
    BY <1>1 DEF Suits
  <2>2. CommandPath = at
    BY <1>1, <2>1, KindsOfKeys DEF PlaceOf
  <2> QED BY <1>1, <1>2, <2>1, <2>2, KindsOfKeys
<1>4. call # "add mms"
  <2> SUFFICES ASSUME call = "add mms" PROVE FALSE
    OBVIOUS
  <2> DEFINE free == {p \in Mms \ DOMAIN contexts : Here(p)}
  <2>1. CommandPath = First(MmsPaths, free)
    BY DEF CommandPath
  <2>2. Range(MmsPaths) \cap free # {}
    BY <1>1 DEF Suits, Mms
  <2>3. CommandPath \in free
    <3> HIDE DEF free
    <3> QED BY <2>1, <2>2, FirstFound, SimsAssumption
  <2> QED BY <1>2, <2>3, KindsOfKeys
<1>5. place \notin DOMAIN contexts
  <2> SUFFICES ASSUME place \in DOMAIN contexts PROVE FALSE
    OBVIOUS
  <2>1. Sim[place] = imsi
    <3>1. CASE at = "mms"
      <4>1. place = mms /\ mms # None
        BY <1>1, <3>1, KindsOfKeys DEF PlaceOf
      <4> QED BY <1>1, <4>1 DEF Todo
    <3>2. CASE at \in Internet
      BY <1>1, <3>2, KindsOfKeys DEF PlaceOf, Suits
    <3> QED BY <1>1, <3>1, <3>2 DEF Keys
  <2> QED BY <1>1, <1>2, <1>3, <1>4, <2>1
<1>6. at \in DOMAIN wanted => call \notin {"set", "clear"}
  <2> SUFFICES ASSUME at \in DOMAIN wanted, call \in {"set", "clear"} PROVE FALSE
    OBVIOUS
  <2>1. \A d \in Pending : d.type \in {"set", "clear"}
    <3>1. \A d \in cmds : IsSet(d)
      BY DEF StoreInv
    <3> QED BY <1>1, <3>1 DEF IsSet
  <2>2. place \in DOMAIN contexts
    BY <1>1, <2>1, WantedAreThere
  <2> QED BY <1>5, <2>2
<1>7. Todo(Pending \ {c}, imsi, wanted, contexts, mms)
  <2>1. c.type \notin {"add", "add mms"} /\ (c.key \in DOMAIN wanted => c.type \notin {"set", "clear"})
        /\ PlaceOf(c.key, mms) \notin DOMAIN contexts
    BY <1>1, <1>3, <1>4, <1>5, <1>6
  <2> QED BY <1>1, <2>1, NotNeeded
<1> QED BY <1>1, <1>7 DEF mms

(* A command that is carried out is one less to do (prv_context_deleted_cb, *)
(* prv_prop_set_cb).                                                        *)
LEMMA CommandHelps ==
    ASSUME TypeInv, SimInv, StoreInv, Writing, call \in {"delete", "delete mms", "set", "clear"}, CanApply
    PROVE  /\ Todo(cmds, imsi, wanted, Applied, Modem.mms)
           /\ DOMAIN Applied \subseteq DOMAIN contexts
<1> DEFINE c == Order(call, at)
           mms == Modem.mms
           place == PlaceOf(at, mms)
<1>1. /\ Pending \in SUBSET AllCommands /\ c \in Pending /\ Pending \ {c} = cmds
      /\ c.type = call /\ c.key = at
      /\ Todo(Pending, imsi, wanted, contexts, mms)
      /\ CommandPath = place
      /\ DOMAIN contexts \subseteq Paths /\ wanted \in Settings /\ mms \in Mms \cup {None}
  BY UnderWay DEF CommandTypes
<1>2. place \in DOMAIN contexts
  BY <1>1 DEF CanApply
<1>3. CASE call \in {"delete", "delete mms"}
  <2>1. Applied = [p \in DOMAIN contexts \ {place} |-> contexts[p]]
    BY <1>1, <1>3 DEF Applied
  <2> HIDE DEF c, mms
  <2>2. Todo(Pending \ {c}, imsi, wanted, Applied, mms)
    BY <1>1, <1>3, <2>1, Deleted
  <2> QED BY <1>1, <2>1, <2>2 DEF mms
<1>4. CASE call \in {"set", "clear"}
  <2>1. Applied = (place :> IF c.type = "set" THEN wanted[c.key] ELSE Unset) @@ contexts
    BY <1>1, <1>4 DEF Applied
  <2> HIDE DEF c, mms
  <2>2. Todo(Pending \ {c}, imsi, wanted, Applied, mms)
    BY <1>1, <1>2, <1>4, <2>1, ValueSet
  <2>3. DOMAIN Applied = DOMAIN contexts
    <3> DEFINE v == IF c.type = "set" THEN wanted[c.key] ELSE Unset
    <3> HIDE DEF v, place
    <3>1. Applied = [q \in {place} \cup DOMAIN contexts |-> IF q = place THEN v ELSE contexts[q]]
      BY <2>1 DEF :>, @@, v
    <3> HIDE DEF Applied
    <3> QED BY <1>2, <3>1
  <2> QED BY <1>1, <2>2, <2>3 DEF mms
<1> QED BY <1>3, <1>4

(* The same of one that makes a context (prv_context_added_cb,              *)
(* prv_mms_context_added_cb).                                               *)
LEMMA AddingHelps ==
    ASSUME TypeInv, SimInv, StoreInv, Writing, call \in {"add", "add mms"}, CanApply,
           NEW mms1, mms1 = IF call = "add mms" THEN CommandPath ELSE Modem.mms
    PROVE  /\ Todo(cmds, imsi, wanted, Applied, mms1)
           /\ DOMAIN Applied = DOMAIN contexts \cup {CommandPath}
<1> DEFINE c == Order(call, at)
           mms == Modem.mms
           p == CommandPath
<1>1. /\ Pending \in SUBSET AllCommands /\ c \in Pending /\ Pending \ {c} = cmds
      /\ c.type = call /\ c.key = at
      /\ Todo(Pending, imsi, wanted, contexts, mms) /\ Suits(c, imsi, wanted, contexts, mms)
      /\ call # "add mms" => CommandPath = PlaceOf(at, mms)
      /\ \A q : Here(q) <=> Sim[q] = imsi
      /\ DOMAIN contexts \subseteq Paths /\ wanted \in Settings /\ mms \in Mms \cup {None}
  BY UnderWay DEF CommandTypes
<1>2. p \in Paths /\ Sim[p] = imsi
  BY <1>1 DEF CanApply
<1>3. Applied = (p :> Unset) @@ contexts
  BY DEF Applied
<1>4. IF c.type = "add" THEN p = c.key /\ mms1 = mms ELSE p \in Mms /\ mms1 = p
  <2>1. CASE call = "add"
    BY <1>1, <2>1, KindsOfKeys DEF PlaceOf, Suits
  <2>2. CASE call = "add mms"
    <3> DEFINE free == {q \in Mms \ DOMAIN contexts : Here(q)}
    <3>1. p = First(MmsPaths, free)
      BY <2>2 DEF CommandPath
    <3>2. p \in Mms
      <4> HIDE DEF free, p
      <4> QED BY <1>2, <3>1, MmsFound, KindsOfKeys
    <3> QED BY <1>1, <2>2, <3>2
  <2> QED BY <2>1, <2>2
<1>5. Todo(Pending \ {c}, imsi, wanted, Applied, mms1)
  <2> HIDE DEF c, mms, p
  <2> QED BY <1>1, <1>2, <1>3, <1>4, Added
<1>6. DOMAIN Applied = {p} \cup DOMAIN contexts
  <2> HIDE DEF p
  <2>1. Applied = [q \in {p} \cup DOMAIN contexts |-> IF q = p THEN Unset ELSE contexts[q]]
    BY <1>3 DEF :>, @@
  <2> HIDE DEF Applied
  <2> QED BY <2>1
<1> QED BY <1>1, <1>5, <1>6

(* The callbacks of sync_out.                                               *)
LEMMA StoreWritten ==
    ASSUME TypeInv, TypeInv', SimInv, StoreInv,
           CommandDone \/ ContextAdded \/ NewProxyCreated \/ CommandFailed \/ SyncOutCancelled
    PROVE  StoreInv'
<1> USE DEF TypeInv, None
<1>1. /\ call \in CommandTypes \cup {"new proxy"} /\ UNCHANGED <<phase, imsi, wanted, unseen, sims>>
  BY OutCallsAre DEF CommandDone, ContextAdded, NewProxyCreated, CommandFailed, SyncOutCancelled, Replied, CommandTypes, outRest, apiVars
<1>2. phase = "syncing out" /\ imsi \in DOMAIN modems /\ phase' = "syncing out" /\ imsi' \in DOMAIN modems'
      /\ DataOK' /\ wanted' \in Settings /\ cmds \in SUBSET AllCommands
  BY <1>1 DEF PlaceOK, CommandsOK
<1> SUFFICES ASSUME Writing' PROVE StoreInv'
  BY DEF StoreInv
<1>3. Writing
  <2>1. ~failed
    BY DEF Writing, CommandDone, ContextAdded, NewProxyCreated, CommandFailed, SyncOutCancelled
  <2>2. imsi \notin unseen /\ call # "crashed" /\ call # "complete sync out"
    BY <1>1 DEF Writing, CommandTypes
  <2> QED BY <1>2, <2>1, <2>2 DEF Writing
<1>4. \A p \in DOMAIN contexts : Sim[p] = imsi => p \in Modem.proxies \cup (IF call = "new proxy" THEN {at} ELSE {})
  BY <1>3 DEF StoreInv, Of
<1>5. CASE CommandDone
  <2>1. /\ call \in {"delete", "delete mms", "set", "clear"} /\ CanApply /\ contexts' = Applied
        /\ SyncOutStep(Modem, cmds) /\ UNCHANGED modems
    BY <1>5 DEF CommandDone, Replied
  <2>2. Todo(cmds, imsi, wanted, contexts', Modem.mms) /\ DOMAIN contexts' \subseteq DOMAIN contexts
    BY <1>3, <2>1, CommandHelps
  <2>3. modems'[imsi'] = Modem
    BY <1>1, <2>1 DEF Modem
  <2>4. Todo(cmds, imsi', wanted', contexts', modems'[imsi'].mms) /\ SyncOutStep(modems'[imsi'], cmds)
    BY <1>1, <2>1, <2>2, <2>3
  <2>5. \A p \in DOMAIN contexts' : Sim[p] = imsi' => p \in modems'[imsi'].proxies
    BY <1>1, <1>4, <2>1, <2>2, <2>3
  <2> QED BY <1>2, <2>4, <2>5, NextKept
<1>6. CASE ContextAdded
  <2>1. /\ call \in {"add", "add mms"} /\ CanApply /\ contexts' = Applied
        /\ modems' = (IF call = "add mms" THEN [modems EXCEPT ![imsi].mms = CommandPath] ELSE modems)
        /\ call' = "new proxy" /\ at' = CommandPath /\ UNCHANGED cmds
    BY <1>6 DEF ContextAdded, Replied, Await
  <2>2. /\ modems'[imsi].mms = IF call = "add mms" THEN CommandPath ELSE Modem.mms
        /\ modems'[imsi].proxies = Modem.proxies
    <3> DEFINE m == modems[imsi]
               q == CommandPath
    <3>1. modems'[imsi] = IF call = "add mms" THEN [m EXCEPT !.mms = q] ELSE m
      BY <1>2, <2>1
    <3>2. IsModem(m)
      BY <1>2 DEF DataOK
    <3> HIDE DEF m, q
    <3>3. modems'[imsi].mms = (IF call = "add mms" THEN q ELSE m.mms) /\ modems'[imsi].proxies = m.proxies
      BY <3>1, <3>2 DEF IsModem, ModemType
    <3> QED BY <3>3 DEF m, q, Modem
  <2>3. Todo(cmds, imsi, wanted, Applied, modems'[imsi].mms) /\ DOMAIN Applied = DOMAIN contexts \cup {CommandPath}
    BY <1>3, <2>1, <2>2, AddingHelps
  <2>4. Pending' = cmds /\ Modem' = modems'[imsi]
    BY <1>1, <2>1 DEF Pending, CommandTypes, Modem
  <2>5. Of(imsi)' \subseteq Of(imsi) \cup {CommandPath}
    BY <1>1, <2>1, <2>3 DEF Of
  <2>6. Of(imsi) \subseteq Modem.proxies
    BY <1>3, <2>1 DEF StoreInv
  <2> QED BY <1>1, <2>1, <2>2, <2>3, <2>4, <2>5, <2>6 DEF StoreInv, CommandTypes
<1>7. CASE NewProxyCreated
  <2>1. /\ call = "new proxy"
        /\ modems' = [modems EXCEPT ![imsi].knows = @ \cup {at}, ![imsi].proxies = @ \cup {at}]
        /\ SyncOutStep(modems'[imsi], cmds) /\ UNCHANGED contexts
    BY <1>7 DEF NewProxyCreated, Replied
  <2>2. modems'[imsi].mms = Modem.mms /\ modems'[imsi].proxies = Modem.proxies \cup {at}
    <3> DEFINE m == modems[imsi]
               ks == m.knows \cup {at}
               ps == m.proxies \cup {at}
    <3>1. modems'[imsi] = [m EXCEPT !.knows = ks, !.proxies = ps]
      BY <1>2, <2>1
    <3>2. IsModem(m)
      BY <1>2 DEF DataOK
    <3> HIDE DEF m, ks, ps
    <3>3. modems'[imsi].mms = m.mms /\ modems'[imsi].proxies = ps
      BY <3>1, <3>2 DEF IsModem, ModemType
    <3> QED BY <3>3 DEF m, ps, Modem
  <2>3. Pending = cmds
    BY <2>1 DEF Pending, CommandTypes
  <2>4. Todo(cmds, imsi', wanted', contexts', modems'[imsi'].mms) /\ SyncOutStep(modems'[imsi'], cmds)
    BY <1>1, <1>3, <2>1, <2>2, <2>3 DEF StoreInv
  <2>5. \A p \in DOMAIN contexts' : Sim[p] = imsi' => p \in modems'[imsi'].proxies
    BY <1>1, <1>4, <2>1, <2>2
  <2> QED BY <1>2, <2>4, <2>5, NextKept
<1>8. CASE CommandFailed
  <2>1. /\ call # "new proxy" /\ ~CanApply /\ Unheard /\ SyncOutStep(Modem, cmds) /\ UNCHANGED modems
    BY <1>8 DEF CommandFailed, Writing
  <2>2. UNCHANGED contexts /\ call \in CommandTypes
    BY <1>1, <2>1 DEF Unheard
  <2>3. Todo(cmds, imsi, wanted, contexts, Modem.mms)
    BY <1>3, <2>1, <2>2, CommandLeft
  <2>4. modems'[imsi'] = Modem
    BY <1>1, <2>1 DEF Modem
  <2>5. Todo(cmds, imsi', wanted', contexts', modems'[imsi'].mms) /\ SyncOutStep(modems'[imsi'], cmds)
    BY <1>1, <2>1, <2>2, <2>3, <2>4
  <2>6. \A p \in DOMAIN contexts' : Sim[p] = imsi' => p \in modems'[imsi'].proxies
    BY <1>1, <1>4, <2>1, <2>2, <2>4
  <2> QED BY <1>2, <2>5, <2>6, NextKept
<1>9. CASE SyncOutCancelled
  <2>1. call' = "complete sync out" /\ cbErr' = "cancelled"
    BY <1>9 DEF SyncOutCancelled, CompleteLater
  <2> QED BY <2>1 DEF Writing
<1> QED BY <1>5, <1>6, <1>7, <1>8, <1>9

(* How it begins, and what else happens meanwhile.                          *)
LEMMA StoreElse ==
    ASSUME ~CanSwap, TypeInv, TypeInv', ReadyInv, StoreInv,
           \/ SyncIn \/ SyncOut \/ Abort \/ Cancel
           \/ ManagerProxyCreated \/ GetModemsDone \/ SimProxyCreated
           \/ GetSimPropertiesDone \/ SimPropertiesFailed \/ TaskFailed \/ TaskCancelled \/ ModemsDone
           \/ ConnmanProxyCreated \/ GetContextsDone \/ ContextProxyCreated \/ SyncInFailed \/ SyncInCancelled \/ CompleteSyncIn
           \/ CompleteSyncOut \/ OthersChange \/ SwapSims \/ Restart \/ UNCHANGED vars
    PROVE  StoreInv'
<1> USE DEF TypeInv, None
<1>1. CASE SyncOut
  <2>1. /\ phase = "open" /\ phase' = "syncing out" /\ UNCHANGED <<contexts, modems, imsi, unseen>>
        /\ SyncOutStep(Modem, Analyse(Modem, wanted')) /\ wanted' \in Edited(Modem.settings)
    BY <1>1 DEF SyncOut, world
  <2>2. imsi \in DOMAIN modems /\ IsModem(Modem) /\ ContextsOK
    BY <2>1 DEF PlaceOK, DataOK, Modem
  <2> SUFFICES ASSUME imsi \notin unseen PROVE StoreInv'
    BY <2>1 DEF StoreInv, Writing
  <2>3. Listed(imsi) /\ Of(imsi) \subseteq Modem.proxies
    BY <2>1 DEF ReadyInv, Ready
  <2>4. wanted' \in Settings
    BY DEF CommandsOK
  <2>5. Modem.settings \in Settings
    BY <2>2 DEF IsModem, ModemType
  <2>6. Analyse(Modem, wanted') \in SUBSET AllCommands
    BY <2>4, <2>5, AnalyseType
  <2>7. Todo(Analyse(Modem, wanted'), imsi, wanted', contexts, Modem.mms)
    BY <2>1, <2>2, <2>3, Planned DEF Listed, Modem
  <2>8. modems'[imsi'] = Modem /\ imsi' \in DOMAIN modems' /\ DataOK'
    BY <2>1, <2>2 DEF Modem
  <2>9. /\ Todo(Analyse(Modem, wanted'), imsi', wanted', contexts', modems'[imsi'].mms)
        /\ SyncOutStep(modems'[imsi'], Analyse(Modem, wanted'))
        /\ \A p \in DOMAIN contexts' : Sim[p] = imsi' => p \in modems'[imsi'].proxies
    BY <2>1, <2>3, <2>7, <2>8 DEF Of
  <2> QED BY <2>1, <2>4, <2>6, <2>8, <2>9, NextKept
<1>2. CASE Cancel \/ OthersChange \/ UNCHANGED vars
  <2>1. UNCHANGED <<modems, imsi, cmds, wanted, failed, at, call, cbErr, phase>> /\ unseen \subseteq unseen'
        /\ \A i \in Watched : i \in unseen' \/ Untouched(i)
    <3>1. CASE Cancel \/ UNCHANGED vars
      <4>1. UNCHANGED <<modems, imsi, cmds, wanted, failed, at, call, cbErr, phase, contexts, unseen>>
        BY <3>1 DEF Cancel, vars, world, outVars, callVars, apiVars
      <4> QED BY <4>1, AllUntouched
    <3>2. CASE OthersChange
      BY <3>2, OthersLeave
    <3> QED BY <1>2, <3>1, <3>2
  <2> SUFFICES ASSUME Writing' PROVE StoreInv'
    BY DEF StoreInv
  <2>2. Writing
    BY <2>1 DEF Writing
  <2>3. imsi \in Watched /\ imsi \notin unseen'
    BY <2>1, <2>2 DEF Writing, PlaceOK, Watched
  <2>4. Of(imsi)' = Of(imsi) /\ \A p \in Of(imsi) : contexts'[p] = contexts[p]
    BY <2>1, <2>3 DEF Untouched
  <2>5. \A p \in Paths : Sim[p] = imsi => (p \in DOMAIN contexts' <=> p \in DOMAIN contexts) /\ (p \in DOMAIN contexts => contexts'[p] = contexts[p])
    BY <2>1, <2>4 DEF Of
  <2>6. DOMAIN contexts \subseteq Paths /\ DOMAIN contexts' \subseteq Paths /\ wanted \in Settings /\ Modem.mms \in Mms \cup {None}
    BY <2>2 DEF Writing, PlaceOK, DataOK, ContextsOK, CommandsOK, IsModem, ModemType, Modem
  <2>7. Todo(Pending, imsi, wanted, contexts, Modem.mms)
    BY <2>2 DEF StoreInv
  <2>8. Todo(Pending, imsi, wanted, contexts', Modem.mms)
    BY <2>5, <2>6, <2>7, TodoKept
  <2>9. Pending' = Pending /\ Modem' = Modem /\ Of(imsi') = Of(imsi)
    BY <2>1 DEF Pending, Modem
  <2> QED BY <2>1, <2>2, <2>4, <2>8, <2>9 DEF StoreInv
<1>3. ASSUME phase' # "syncing out" PROVE StoreInv'
  BY <1>3 DEF StoreInv, Writing
<1>4. CASE SyncIn \/ Abort \/ CompleteSyncOut \/ CompleteSyncIn \/ Restart
  BY <1>3, <1>4 DEF SyncIn, Abort, CompleteSyncOut, CompleteSyncIn, Restart
<1>5. CASE SwapSims
  BY <1>3, <1>5 DEF SwapSims, otherRest, apiVars
<1>6. CASE \/ ManagerProxyCreated \/ GetModemsDone \/ SimProxyCreated
           \/ GetSimPropertiesDone \/ SimPropertiesFailed \/ TaskFailed \/ TaskCancelled \/ ModemsDone
           \/ ConnmanProxyCreated \/ GetContextsDone \/ ContextProxyCreated \/ SyncInFailed \/ SyncInCancelled
  <2>1. call \in InCalls \cup {"modems done"} /\ UNCHANGED phase
    BY <1>6 DEF ManagerProxyCreated, GetModemsDone, SimProxyCreated, GetSimPropertiesDone, SimPropertiesFailed, TaskFailed,
                TaskCancelled, ModemsDone, ConnmanProxyCreated, GetContextsDone, ContextProxyCreated, SyncInFailed, SyncInCancelled,
                taskRest, stepRest, Replied, InCalls, TaskCalls
  <2>2. phase = "syncing in"
    BY <2>1 DEF PlaceOK
  <2> QED BY <1>3, <2>1, <2>2
<1> QED BY <1>1, <1>2, <1>4, <1>5, <1>6

LEMMA StoreInvariant == ASSUME ~CanSwap, "get contexts" \notin CancelIn PROVE Spec => []StoreInv
<1>1. Init => StoreInv
  BY DEF Init, StoreInv, Writing
<1>2. TypeInv /\ TypeInv' /\ SimInv /\ ReadyInv /\ StoreInv /\ [Next]_vars => StoreInv'
  BY StoreWritten, StoreElse DEF Next, Chain, Local
<1> QED BY <1>1, <1>2, TypeInvariant, SimInvariant, ReadyInvariant, PTL DEF Spec

(* A session that is stored without a failure leaves a SIM's contexts as    *)
(* the client wants them, whatever its changes were and in whatever order   *)
(* the commands of a kind are carried out, and though other programs change *)
(* the contexts of other SIMs meanwhile (prv_ofono_plugin_anaylse,          *)
(* prv_sync_out_step and its callbacks): as long as SIMs stay in their      *)
(* modems while a session lasts.                                            *)
THEOREM OfonoStoresAsWanted ==
    ASSUME ~CanSwap, "get contexts" \notin CancelIn
    PROVE  Spec => StoredAsWanted
<1>1. TypeInv /\ StoreInv /\ [Next]_vars
         => [CompleteSyncOut /\ result' = "none" /\ ~failed /\ imsi \notin unseen =>
                /\ \A k \in DOMAIN wanted :
                      LET p == IF k = "mms" THEN Modem.mms ELSE k
                      IN  p \in DOMAIN contexts /\ contexts[p] = wanted[k]
                /\ Of(imsi) \cap Internet \subseteq DOMAIN wanted
                /\ "mms" \notin DOMAIN wanted => Modem.mms \notin DOMAIN contexts]_vars
  <2> SUFFICES ASSUME TypeInv, StoreInv, CompleteSyncOut, result' = "none", ~failed, imsi \notin unseen
               PROVE  /\ \A k \in DOMAIN wanted : PlaceOf(k, Modem.mms) \in DOMAIN contexts /\ contexts[PlaceOf(k, Modem.mms)] = wanted[k]
                      /\ Of(imsi) \cap Internet \subseteq DOMAIN wanted
                      /\ "mms" \notin DOMAIN wanted => Modem.mms \notin DOMAIN contexts
    BY DEF PlaceOf
  <2>1. call = "complete sync out" /\ cbErr = "none"
    BY DEF CompleteSyncOut
  <2>2. Writing
    BY <2>1 DEF Writing, TypeInv, PlaceOK
  <2>3. Pending = {}
    BY <2>1, <2>2 DEF StoreInv, Pending, CommandTypes
  <2>4. Todo({}, imsi, wanted, contexts, Modem.mms)
    BY <2>2, <2>3 DEF StoreInv
  <2> QED BY <2>4 DEF Todo, Met, Of
<1> QED BY <1>1, TypeInvariant, StoreInvariant, PTL DEF Spec, StoredAsWanted
=============================================================================
