---------------------------- MODULE SettingsProofs ----------------------------
(***************************************************************************)
(* Proofs about Settings, for any names, switches and proxies, and any     *)
(* number of changes, boots and failures of NVS.                           *)
(***************************************************************************)
EXTENDS Settings, TLAPS

SetSpec == SetInit /\ [][SetNext]_setVars

NameVals == Names \cup {""}
FlagVals == Flags \cup {""}
ToldNames == NameVals \cup {"prefix", "derived", "of no address"}
ProxyRec == [on : BOOLEAN, host : {p[1] : p \in Proxies} \cup {""},
             port : {p[2] : p \in Proxies} \cup {""}]

Saves == [at : {"save", "enqueue"}, key : Deferred, val : NameVals \cup FlagVals, add : BOOLEAN]
Writes == [at : {"on", "host", "port"}, val : ProxyRec]
Reads == [at : {"read"}, key : Deferred]
Applies == [at : {"apply"}, key : Deferred, val : NameVals \cup FlagVals]

SavedTypes ==
  /\ nvs \in [name : NameVals, dbg : FlagVals, sec : {"", "off", "on"}, px : ProxyRec]
  /\ chosen \in [name : NameVals, dbg : FlagVals, sec : Modes, px : ProxyRec]
  /\ link_mode \in Modes /\ px \in ProxyRec
  /\ httpd \in {AtRest} \cup Saves \cup Writes
  /\ button.at = "save" => button.mode \in Modes

(* What the web server's task is writing is the last choice, in doubt till *)
(* its last key is written.                                                *)
InFlight ==
  /\ httpd.at = "save" => httpd.val = chosen[httpd.key] /\ httpd.key \in doubt
  /\ httpd.at \in {"on", "host", "port"} => httpd.val = chosen.px /\ "px" \in doubt
  /\ httpd.at \in {"host", "port"} => nvs.px.on = chosen.px.on
  /\ httpd.at = "port" => nvs.px.host = chosen.px.host

(* Flash has every choice that is not in doubt.                            *)
Written ==
  /\ "name" \notin doubt => nvs.name = chosen.name
  /\ "dbg" \notin doubt => nvs.dbg = chosen.dbg
  /\ "sec" \notin doubt => nvs_secure_load = chosen.sec
  /\ "px" \notin doubt => nvs.px = chosen.px

SavedInv == SavedTypes /\ InFlight /\ Written

ToldTypes ==
  /\ ram \in [name : NameVals, dbg : FlagVals]
  /\ active \in [name : ToldNames, dbg : FlagVals]
  /\ pending \in [Deferred -> BOOLEAN] /\ queued \in [Deferred -> BOOLEAN]
  /\ working \in BOOLEAN
  /\ bt_task \in {AtRest} \cup Reads \cup Applies
  /\ bt_task.at = "apply" => bt_task.val \in IF bt_task.key = "name" THEN NameVals ELSE FlagVals

(* A setting that no callback is owed for has been told to BTstack, unless *)
(* the BTstack task is at it, and then with what was set last.             *)
At(k) == bt_task.at # "idle" /\ bt_task.key = k
Told(k) ==
  ~pending[k] =>
    /\ At(k) /\ bt_task.at = "apply" => bt_task.val = ram[k]
    /\ ~At(k) => active[k] = Effective(k, ram[k], TRUE)

ToldInv == ToldTypes /\ (working => Told("name")) /\ Told("dbg")

-----------------------------------------------------------------------------
(* What is kept.                                                           *)
LEMMA Requests ==
  ASSUME SavedTypes
  PROVE  /\ httpd.at \in {"save", "enqueue"} => httpd \in Saves
         /\ httpd.at \in {"on", "host", "port"} => httpd \in Writes
         /\ httpd = AtRest => httpd.at = "idle"
<1>1. httpd = AtRest => httpd.at = "idle"
  BY DEF AtRest
<1>2. httpd \in Saves => httpd.at \in {"save", "enqueue"}
  BY DEF Saves
<1>3. httpd \in Writes => httpd.at \in {"on", "host", "port"}
  BY DEF Writes
<1> QED BY <1>1, <1>2, <1>3 DEF SavedTypes

LEMMA AtRestInFlight ==
  ASSUME httpd' = AtRest
  PROVE  InFlight' /\ httpd' \in {AtRest} \cup Saves \cup Writes
BY DEF InFlight, AtRest

LEMMA SavedStart == SetInit => SavedInv
<1>1. NoProxy \in ProxyRec
  BY DEF NoProxy, ProxyRec
<1> SUFFICES ASSUME SetInit PROVE SavedInv
  OBVIOUS
<1>2. /\ nvs = [name |-> "", dbg |-> "", sec |-> "", px |-> NoProxy]
      /\ chosen = [name |-> "", dbg |-> "", sec |-> "auto", px |-> NoProxy]
      /\ httpd = AtRest /\ button = AtRest /\ link_mode = "auto" /\ px = NoProxy
  BY DEF SetInit
<1>3. httpd.at = "idle" /\ button.at = "idle"
  BY <1>2 DEF AtRest
<1>4. SavedTypes
  BY <1>1, <1>2, <1>3 DEF SavedTypes, Modes, NameVals, FlagVals
<1>5. InFlight
  BY <1>3 DEF InFlight
<1>6. Written
  BY <1>2 DEF Written, nvs_secure_load
<1> QED BY <1>4, <1>5, <1>6 DEF SavedInv

LEMMA SetSaved ==
  ASSUME SavedInv, NEW k \in Deferred, NEW v \in IF k = "name" THEN NameVals ELSE FlagVals,
         HttpdIdle, Set(k, v)
  PROVE  SavedInv'
<1>1. /\ httpd' = [at |-> "save", key |-> k, val |-> v, add |-> ~pending[k]]
      /\ chosen' = [chosen EXCEPT ![k] = v] /\ doubt' = doubt \union {k}
      /\ UNCHANGED <<nvs, button, link_mode, px>>
  BY DEF Set
<1>2. httpd' \in Saves /\ httpd'.at = "save" /\ httpd'.key = k /\ httpd'.val = v
  BY <1>1 DEF Saves
<1>3. CASE k = "name"
  <2>1. /\ chosen' \in [name : NameVals, dbg : FlagVals, sec : Modes, px : ProxyRec]
        /\ chosen'.name = v /\ chosen'.dbg = chosen.dbg
        /\ chosen'.sec = chosen.sec /\ chosen'.px = chosen.px /\ chosen'["name"] = v
    BY <1>1, <1>3 DEF SavedInv, SavedTypes
  <2>2. SavedTypes'
    BY <1>1, <1>2, <2>1 DEF SavedInv, SavedTypes
  <2>3. InFlight'
    BY <1>1, <1>2, <1>3, <2>1 DEF InFlight
  <2>4. Written'
    BY <1>1, <1>3, <2>1 DEF SavedInv, Written, nvs_secure_load
  <2> QED BY <2>2, <2>3, <2>4 DEF SavedInv
<1>4. CASE k = "dbg"
  <2>1. /\ chosen' \in [name : NameVals, dbg : FlagVals, sec : Modes, px : ProxyRec]
        /\ chosen'.dbg = v /\ chosen'.name = chosen.name
        /\ chosen'.sec = chosen.sec /\ chosen'.px = chosen.px /\ chosen'["dbg"] = v
    BY <1>1, <1>4 DEF SavedInv, SavedTypes
  <2>2. SavedTypes'
    BY <1>1, <1>2, <2>1 DEF SavedInv, SavedTypes
  <2>3. InFlight'
    BY <1>1, <1>2, <1>4, <2>1 DEF InFlight
  <2>4. Written'
    BY <1>1, <1>4, <2>1 DEF SavedInv, Written, nvs_secure_load
  <2> QED BY <2>2, <2>3, <2>4 DEF SavedInv
<1> QED BY <1>3, <1>4 DEF Deferred

LEMMA SaveDeferredSaved ==
  ASSUME SavedInv, SaveDeferred
  PROVE  SavedInv'
<1>1. httpd \in Saves /\ httpd.at = "save" /\ httpd.val = chosen[httpd.key]
  BY Requests DEF SaveDeferred, SavedInv, InFlight
<1>2. httpd' \in Saves /\ httpd'.at = "enqueue"
  BY <1>1 DEF SaveDeferred, Saves
<1>3. InFlight'
  BY <1>2 DEF InFlight
<1>4. UNCHANGED <<chosen, link_mode, px, button>>
  BY DEF SaveDeferred
<1>5. CASE UNCHANGED <<nvs, doubt>>
  <2>1. SavedTypes'
    BY <1>2, <1>4, <1>5 DEF SavedInv, SavedTypes
  <2>2. Written'
    BY <1>4, <1>5 DEF SavedInv, Written, nvs_secure_load
  <2> QED BY <1>3, <2>1, <2>2 DEF SavedInv
<1>6. CASE /\ nvs' = [nvs EXCEPT ![httpd.key] = Stored(httpd.key, httpd.val)]
           /\ doubt' = doubt \ {httpd.key}
  <2>1. Stored(httpd.key, httpd.val) = chosen[httpd.key]
    BY <1>1 DEF Stored, nvs_name_save, nvs_flags_save
  <2>2. CASE httpd.key = "name"
    <3>1. /\ nvs' \in [name : NameVals, dbg : FlagVals, sec : {"", "off", "on"}, px : ProxyRec]
          /\ nvs'.name = chosen.name /\ nvs'.dbg = nvs.dbg
          /\ nvs'.sec = nvs.sec /\ nvs'.px = nvs.px
      BY <1>6, <2>1, <2>2 DEF SavedInv, SavedTypes
    <3>2. SavedTypes'
      BY <1>2, <1>4, <3>1 DEF SavedInv, SavedTypes
    <3>3. Written'
      BY <1>4, <1>6, <2>2, <3>1 DEF SavedInv, Written, nvs_secure_load
    <3> QED BY <1>3, <3>2, <3>3 DEF SavedInv
  <2>3. CASE httpd.key = "dbg"
    <3>1. /\ nvs' \in [name : NameVals, dbg : FlagVals, sec : {"", "off", "on"}, px : ProxyRec]
          /\ nvs'.dbg = chosen.dbg /\ nvs'.name = nvs.name
          /\ nvs'.sec = nvs.sec /\ nvs'.px = nvs.px
      BY <1>6, <2>1, <2>3 DEF SavedInv, SavedTypes
    <3>2. SavedTypes'
      BY <1>2, <1>4, <3>1 DEF SavedInv, SavedTypes
    <3>3. Written'
      BY <1>4, <1>6, <2>3, <3>1 DEF SavedInv, Written, nvs_secure_load
    <3> QED BY <1>3, <3>2, <3>3 DEF SavedInv
  <2> QED BY <1>1, <2>2, <2>3 DEF Saves, Deferred
<1> QED BY <1>5, <1>6 DEF SaveDeferred, NvsFails

LEMMA SecureSaved ==
  ASSUME SavedInv, NEW mode \in Modes, ppp_link_secure_save(mode),
         UNCHANGED <<link_mode, px, httpd>>,
         button'.at = "save" => button'.mode \in Modes
  PROVE  SavedInv'
<1>1. /\ chosen' = [chosen EXCEPT !.sec = mode]
      /\ \/ nvs' = [nvs EXCEPT !.sec = IF mode = "auto" THEN "" ELSE mode] /\ doubt' = doubt \ {"sec"}
         \/ nvs' = nvs /\ doubt' = doubt \union {"sec"}
  BY DEF ppp_link_secure_save
<1>2. /\ chosen' \in [name : NameVals, dbg : FlagVals, sec : Modes, px : ProxyRec]
      /\ chosen'.sec = mode /\ chosen'.name = chosen.name /\ chosen'.dbg = chosen.dbg
      /\ chosen'.px = chosen.px /\ \A k \in Deferred : chosen'[k] = chosen[k]
  BY <1>1 DEF SavedInv, SavedTypes, Deferred
<1>3. (IF mode = "auto" THEN "" ELSE mode) \in {"", "off", "on"}
  BY DEF Modes
<1>4. /\ nvs' \in [name : NameVals, dbg : FlagVals, sec : {"", "off", "on"}, px : ProxyRec]
      /\ nvs'.name = nvs.name /\ nvs'.dbg = nvs.dbg /\ nvs'.px = nvs.px
      /\ "sec" \notin doubt' => nvs'.sec = IF mode = "auto" THEN "" ELSE mode
  BY <1>1, <1>3 DEF SavedInv, SavedTypes
<1>5. SavedTypes'
  BY <1>2, <1>4 DEF SavedInv, SavedTypes
<1>6. \A k : k # "sec" => (k \in doubt' <=> k \in doubt)
  BY <1>1
<1>7. InFlight'
  <2>1. httpd.at = "save" => httpd.key \in Deferred /\ httpd.key # "sec"
    BY Requests DEF SavedInv, Saves, Deferred
  <2>2. "px" # "sec"
    OBVIOUS
  <2>3. nvs'.px = nvs.px /\ chosen'.px = chosen.px /\ httpd' = httpd
    BY <1>2, <1>4
  <2> QED BY <1>2, <1>6, <2>1, <2>2, <2>3 DEF SavedInv, InFlight
<1>8. Written'
  BY <1>2, <1>4, <1>6 DEF SavedInv, Written, nvs_secure_load, Modes
<1> QED BY <1>5, <1>7, <1>8 DEF SavedInv

LEMMA SecurityPostSaved ==
  ASSUME SavedInv, NEW mode \in Modes, handler_security_post(mode)
  PROVE  SavedInv'
<1>1. UNCHANGED <<httpd, button, link_mode, px>> /\ httpd = AtRest
  BY DEF handler_security_post, HttpdIdle
<1>2. CASE mode = link_mode
  <2>1. /\ chosen' = [chosen EXCEPT !.sec = mode] /\ nvs' = nvs
        /\ doubt' = IF nvs_secure_load = mode THEN doubt ELSE doubt \union {"sec"}
    BY <1>2 DEF handler_security_post
  <2>2. /\ chosen' \in [name : NameVals, dbg : FlagVals, sec : Modes, px : ProxyRec]
        /\ chosen'.sec = mode /\ chosen'.name = chosen.name /\ chosen'.dbg = chosen.dbg
        /\ chosen'.px = chosen.px
    BY <2>1 DEF SavedInv, SavedTypes
  <2>3. SavedTypes'
    BY <1>1, <2>1, <2>2 DEF SavedInv, SavedTypes
  <2>4. Written'
    BY <2>1, <2>2 DEF SavedInv, Written, nvs_secure_load
  <2> QED BY <1>1, <2>3, <2>4, AtRestInFlight DEF SavedInv
<1>3. CASE mode # link_mode
  <2>1. ppp_link_secure_save(mode)
    BY <1>3 DEF handler_security_post
  <2>2. button'.at = "save" => button'.mode \in Modes
    BY <1>1 DEF SavedInv, SavedTypes
  <2> QED BY <1>1, <2>1, <2>2, SecureSaved
<1> QED BY <1>2, <1>3

LEMMA ProxyPostSaved ==
  ASSUME SavedInv, handler_proxy_post
  PROVE  SavedInv'
<1>1. UNCHANGED <<nvs, button, link_mode>>
  BY DEF handler_proxy_post
<1>2. ASSUME NEW p \in ProxyRec, proxy_set(p) PROVE SavedInv'
  <2>1. /\ px' = p /\ chosen' = [chosen EXCEPT !.px = p] /\ doubt' = doubt \union {"px"}
        /\ httpd' = [at |-> "on", val |-> p]
    BY <1>2 DEF proxy_set
  <2>2. /\ chosen' \in [name : NameVals, dbg : FlagVals, sec : Modes, px : ProxyRec]
        /\ chosen'.px = p /\ chosen'.name = chosen.name /\ chosen'.dbg = chosen.dbg
        /\ chosen'.sec = chosen.sec
    BY <2>1 DEF SavedInv, SavedTypes
  <2>3. httpd' \in Writes /\ httpd'.at = "on" /\ httpd'.val = p
    BY <2>1 DEF Writes
  <2>4. SavedTypes'
    BY <1>1, <2>1, <2>2, <2>3 DEF SavedInv, SavedTypes
  <2>5. InFlight'
    BY <2>1, <2>2, <2>3 DEF InFlight
  <2>6. Written'
    BY <1>1, <2>1, <2>2 DEF SavedInv, Written, nvs_secure_load
  <2> QED BY <2>4, <2>5, <2>6 DEF SavedInv
<1>3. CASE proxy_set([px EXCEPT !.on = FALSE])
  <2>1. [px EXCEPT !.on = FALSE] \in ProxyRec
    BY DEF SavedInv, SavedTypes, ProxyRec
  <2> QED BY <1>2, <1>3, <2>1
<1>4. CASE \E p \in Proxies : proxy_set([on |-> TRUE, host |-> p[1], port |-> p[2]])
  <2>1. \A p \in Proxies : [on |-> TRUE, host |-> p[1], port |-> p[2]] \in ProxyRec
    BY DEF ProxyRec
  <2> QED BY <1>2, <1>4, <2>1
<1> QED BY <1>3, <1>4 DEF handler_proxy_post

LEMMA SameProxy ==
  ASSUME NEW p \in ProxyRec, NEW r \in ProxyRec, p.on = r.on, p.host = r.host, p.port = r.port
  PROVE  p = r
<1>1. p = [on |-> p.on, host |-> p.host, port |-> p.port]
  BY DEF ProxyRec
<1>2. r = [on |-> r.on, host |-> r.host, port |-> r.port]
  BY DEF ProxyRec
<1> QED BY <1>1, <1>2

(* The keys are written one after the other; with the last one flash has   *)
(* the whole choice.                                                       *)
LEMMA ProxyKeySaved ==
  ASSUME SavedInv, SaveProxyKey
  PROVE  SavedInv'
<1>1. UNCHANGED <<button, link_mode, px, chosen>>
  BY DEF SaveProxyKey
<1>2. httpd.at \in {"on", "host", "port"}
  BY DEF SaveProxyKey, AfterKey
<1>3. /\ httpd \in Writes /\ httpd.val = chosen.px /\ "px" \in doubt
      /\ nvs.px \in ProxyRec /\ chosen.px \in ProxyRec
  BY <1>2, Requests DEF SavedInv, SavedTypes, InFlight
<1>4. CASE httpd' = AtRest /\ UNCHANGED <<nvs, doubt>>
  <2>1. SavedTypes' /\ Written'
    BY <1>1, <1>4 DEF SavedInv, SavedTypes, Written, nvs_secure_load, AtRest
  <2> QED BY <1>4, <2>1, AtRestInFlight DEF SavedInv
<1>5. ASSUME nvs' = [nvs EXCEPT !.px[httpd.at] = httpd.val[httpd.at]],
             httpd' = IF httpd.at = "port" THEN AtRest
                      ELSE [httpd EXCEPT !.at = AfterKey[@]],
             doubt' = IF httpd.at = "port" THEN doubt \ {"px"} ELSE doubt
      PROVE  SavedInv'
  <2>1. /\ nvs' = [nvs EXCEPT !.px = [nvs.px EXCEPT ![httpd.at] = chosen.px[httpd.at]]]
    BY <1>3, <1>5 DEF SavedInv, SavedTypes
  <2>2. /\ nvs'.px = [nvs.px EXCEPT ![httpd.at] = chosen.px[httpd.at]]
        /\ nvs'.name = nvs.name /\ nvs'.dbg = nvs.dbg /\ nvs'.sec = nvs.sec
    BY <2>1 DEF SavedInv, SavedTypes
  <2>3. nvs'.px \in ProxyRec
    BY <1>2, <1>3, <2>2 DEF ProxyRec
  <2>4. nvs' \in [name : NameVals, dbg : FlagVals, sec : {"", "off", "on"}, px : ProxyRec]
    BY <2>1, <2>2, <2>3 DEF SavedInv, SavedTypes
  <2>5. /\ "name" \notin doubt' => nvs'.name = chosen'.name
        /\ "dbg" \notin doubt' => nvs'.dbg = chosen'.dbg
        /\ "sec" \notin doubt' => nvs_secure_load' = chosen'.sec
    BY <1>1, <1>5, <2>2 DEF SavedInv, Written, nvs_secure_load
  <2>6. CASE httpd.at = "on"
    <3>1. httpd' = [httpd EXCEPT !.at = "host"] /\ doubt' = doubt
      BY <1>5, <2>6 DEF AfterKey
    <3>2. httpd' \in Writes /\ httpd'.at = "host" /\ httpd'.val = chosen.px
      BY <1>3, <3>1 DEF Writes
    <3>3. nvs'.px.on = chosen.px.on
      BY <1>3, <2>2, <2>6 DEF ProxyRec
    <3>4. SavedTypes' /\ InFlight' /\ Written'
      BY <1>1, <1>3, <2>4, <2>5, <3>1, <3>2, <3>3 DEF SavedInv, SavedTypes, InFlight, Written
    <3> QED BY <3>4 DEF SavedInv
  <2>7. CASE httpd.at = "host"
    <3>1. httpd' = [httpd EXCEPT !.at = "port"] /\ doubt' = doubt
      BY <1>5, <2>7 DEF AfterKey
    <3>2. httpd' \in Writes /\ httpd'.at = "port" /\ httpd'.val = chosen.px
      BY <1>3, <3>1 DEF Writes
    <3>3. nvs.px.on = chosen.px.on
      BY <2>7 DEF SavedInv, InFlight
    <3>4. nvs'.px.host = chosen.px.host /\ nvs'.px.on = chosen.px.on
      BY <1>3, <2>2, <2>7, <3>3 DEF ProxyRec
    <3>5. SavedTypes' /\ InFlight' /\ Written'
      BY <1>1, <1>3, <2>4, <2>5, <3>1, <3>2, <3>4 DEF SavedInv, SavedTypes, InFlight, Written
    <3> QED BY <3>5 DEF SavedInv
  <2>8. CASE httpd.at = "port"
    <3>1. httpd' = AtRest
      BY <1>5, <2>8
    <3>2. nvs.px.on = chosen.px.on /\ nvs.px.host = chosen.px.host
      BY <2>8 DEF SavedInv, InFlight
    <3>3. /\ nvs'.px.port = chosen.px.port /\ nvs'.px.on = chosen.px.on
          /\ nvs'.px.host = chosen.px.host
      BY <1>3, <2>2, <2>8, <3>2 DEF ProxyRec
    <3>4. nvs'.px = chosen.px
      BY <1>3, <2>3, <3>3, SameProxy
    <3>5. SavedTypes' /\ Written'
      BY <1>1, <2>4, <2>5, <3>1, <3>4 DEF SavedInv, SavedTypes, Written
    <3> QED BY <3>1, <3>5, AtRestInFlight DEF SavedInv
  <2> QED BY <1>2, <2>6, <2>7, <2>8
<1> QED BY <1>4, <1>5 DEF SaveProxyKey, NvsFails

LEMMA BootSaved ==
  ASSUME SavedInv, Boot
  PROVE  SavedInv'
<1>1. /\ UNCHANGED <<nvs, chosen, doubt>> /\ httpd' = AtRest /\ button' = AtRest
      /\ link_mode' = nvs_secure_load /\ px' = nvs.px
  BY DEF Boot, history, settings_load
<1>2. nvs_secure_load \in Modes /\ nvs.px \in ProxyRec
  BY DEF SavedInv, SavedTypes, nvs_secure_load, Modes
<1>3. SavedTypes'
  BY <1>1, <1>2 DEF SavedInv, SavedTypes, AtRest
<1>4. Written'
  BY <1>1 DEF SavedInv, Written, nvs_secure_load
<1> QED BY <1>1, <1>3, <1>4, AtRestInFlight DEF SavedInv

LEMMA SavedStep ==
  ASSUME SavedInv, [SetNext]_setVars
  PROVE  SavedInv'
<1>1. ASSUME UNCHANGED <<nvs, chosen, doubt, link_mode, px, httpd, button>>
      PROVE  SavedInv'
  BY <1>1 DEF SavedInv, SavedTypes, InFlight, Written, nvs_secure_load
<1>2. CASE handler_name_post
  <2>1. PICK name \in NameVals : HttpdIdle /\ Set("name", name)
    BY <1>2 DEF handler_name_post, bt_name_set, NameVals
  <2>2. "name" \in Deferred /\ name \in IF "name" = "name" THEN NameVals ELSE FlagVals
    BY DEF Deferred
  <2> QED BY <2>1, <2>2, SetSaved
<1>3. CASE handler_debug_post
  <2>1. PICK flags \in FlagVals : HttpdIdle /\ Set("dbg", flags)
    BY <1>3 DEF handler_debug_post, debug_log_set, FlagVals
  <2>2. "dbg" \in Deferred /\ flags \in IF "dbg" = "name" THEN NameVals ELSE FlagVals
    BY DEF Deferred
  <2> QED BY <2>1, <2>2, SetSaved
<1>4. CASE EnqueueApply
  <2>1. httpd' = AtRest /\ UNCHANGED <<nvs, chosen, doubt, link_mode, px, button>>
    BY <1>4 DEF EnqueueApply, history
  <2>2. SavedTypes' /\ Written'
    BY <2>1 DEF SavedInv, SavedTypes, Written, nvs_secure_load
  <2> QED BY <2>1, <2>2, AtRestInFlight DEF SavedInv
<1>5. CASE LongPress
  <2>1. /\ UNCHANGED <<nvs, chosen, doubt, link_mode, px, httpd>>
        /\ button' = [at |-> "save", mode |-> NextMode[nvs_secure_load]]
    BY <1>5 DEF LongPress, history
  <2>2. button'.mode \in Modes
    BY <2>1 DEF NextMode, nvs_secure_load, Modes
  <2> QED BY <2>1, <2>2 DEF SavedInv, SavedTypes, InFlight, Written, nvs_secure_load
<1>6. CASE ButtonSave
  <2>1. button.mode \in Modes
    BY <1>6 DEF ButtonSave, SavedInv, SavedTypes
  <2>2. /\ ppp_link_secure_save(button.mode) /\ UNCHANGED <<link_mode, px, httpd>>
        /\ button'.at # "save"
    BY <1>6 DEF ButtonSave
  <2> QED BY <2>1, <2>2, SecureSaved
<1>7. CASE (\E k \in Deferred : apply_cb(k)) \/ StateWorking \/ ReadSetting \/ ApplySetting
  BY <1>1, <1>7 DEF apply_cb, StateWorking, ReadSetting, ApplySetting, BtTask, history
<1>8. CASE handler_reboot \/ UNCHANGED setVars
  BY <1>1, <1>8 DEF handler_reboot, setVars, history
<1>9. CASE Boot
  BY <1>9, BootSaved
<1> QED BY <1>2, <1>3, <1>4, <1>5, <1>6, <1>7, <1>8, <1>9, SaveDeferredSaved,
           SecurityPostSaved, ProxyPostSaved, ProxyKeySaved
        DEF SetNext, reboot_task, ButtonReboot, PowerCut

(* What is in effect after a boot is what flash has.                       *)
LEMMA BootKeeps ==
  ASSUME SavedInv, Boot, NEW k \in DOMAIN chosen \ doubt
  PROVE  InEffect'[k] = chosen[k]
<1>1. /\ ram' = [name |-> nvs.name, dbg |-> nvs.dbg]
      /\ link_mode' = nvs_secure_load /\ px' = nvs.px
  BY DEF Boot, nvs_name_load, debug_log_init, nvs_flags_load, settings_load
<1>2. InEffect' = [name |-> nvs.name, dbg |-> nvs.dbg, sec |-> nvs_secure_load, px |-> nvs.px]
  BY <1>1 DEF InEffect, handler_name_get, handler_debug_get, handler_security_get,
              handler_proxy_get
<1>3. k \in {"name", "dbg", "sec", "px"}
  BY DEF SavedInv, SavedTypes
<1> QED BY <1>2, <1>3 DEF SavedInv, Written

(* Only a boot counts one.                                                 *)
LEMMA OnlyBootBoots ==
  ASSUME [SetNext]_setVars, boots' # boots
  PROVE  Boot
<1>1. ~UNCHANGED setVars
  BY DEF setVars, counts
<1>2. CASE handler_name_post \/ handler_debug_post
  BY <1>2 DEF handler_name_post, handler_debug_post, bt_name_set, debug_log_set, Set
<1>3. CASE (\E k \in Deferred : apply_cb(k)) \/ StateWorking \/ ReadSetting \/ ApplySetting
  BY <1>3 DEF apply_cb, StateWorking, ReadSetting, ApplySetting, BtTask, counts
<1>4. CASE SaveDeferred \/ EnqueueApply \/ LongPress \/ ButtonSave \/ SaveProxyKey
  BY <1>4 DEF SaveDeferred, EnqueueApply, LongPress, ButtonSave, SaveProxyKey, counts
<1>5. CASE (\E m \in Modes : handler_security_post(m)) \/ handler_proxy_post \/ handler_reboot
  BY <1>5 DEF handler_security_post, handler_proxy_post, handler_reboot, counts
<1> QED BY <1>1, <1>2, <1>3, <1>4, <1>5 DEF SetNext, reboot_task, ButtonReboot, PowerCut

(* bt_name.c:59-83, debug_log.c:41-61, ppp_link.c:79-116,                  *)
(* http_proxy.c:120-160: every reboot, wherever it falls among the writes, *)
(* finds the last choice in flash, but for the choices left in doubt.      *)
THEOREM ChoiceSurvives == SetSpec => KeptAcrossReboot
<1>1. ASSUME SavedInv, [SetNext]_setVars
      PROVE  /\ SavedInv'
             /\ [boots' # boots =>
                   \A k \in DOMAIN chosen \ doubt : InEffect'[k] = chosen[k]]_setVars
  BY <1>1, SavedStep, OnlyBootBoots, BootKeeps
<1> QED BY <1>1, SavedStart, PTL DEF SetSpec, KeptAcrossReboot

-----------------------------------------------------------------------------
(* What BTstack was told.                                                  *)
LEMMA TaskAt ==
  ASSUME ToldTypes
  PROVE  /\ bt_task.at = "read" => bt_task.key \in Deferred
         /\ bt_task.at = "apply" => bt_task.key \in Deferred
         /\ bt_task = AtRest => bt_task.at = "idle"
<1>1. bt_task = AtRest => bt_task.at = "idle"
  BY DEF AtRest
<1>2. bt_task \in Reads => bt_task.key \in Deferred
  BY DEF Reads
<1>3. bt_task \in Applies => bt_task.key \in Deferred
  BY DEF Applies
<1> QED BY <1>1, <1>2, <1>3 DEF ToldTypes

LEMMA ToldStart == SetInit => ToldInv
<1> SUFFICES ASSUME SetInit PROVE ToldInv
  OBVIOUS
<1>1. /\ ram = [name |-> "", dbg |-> ""] /\ active = [name |-> "prefix", dbg |-> ""]
      /\ pending = [k \in Deferred |-> FALSE] /\ queued = [k \in Deferred |-> FALSE]
      /\ working = FALSE /\ bt_task = AtRest
  BY DEF SetInit
<1>2. bt_task.at = "idle"
  BY <1>1 DEF AtRest
<1>3. ToldTypes
  BY <1>1, <1>2 DEF ToldTypes, NameVals, FlagVals, ToldNames
<1>4. Told("dbg")
  BY <1>1, <1>2 DEF Told, At, Effective
<1> QED BY <1>1, <1>3, <1>4 DEF ToldInv

LEMMA SetTold ==
  ASSUME ToldInv, NEW k \in Deferred, NEW v \in IF k = "name" THEN NameVals ELSE FlagVals,
         Set(k, v)
  PROVE  ToldInv'
<1>1. /\ ram' = [ram EXCEPT ![k] = v] /\ pending' = [pending EXCEPT ![k] = TRUE]
      /\ UNCHANGED <<active, queued, working, bt_task>>
  BY DEF Set
<1>2. ram' \in [name : NameVals, dbg : FlagVals] /\ pending' \in [Deferred -> BOOLEAN]
  <2>1. CASE k = "name"
    BY <1>1, <2>1 DEF ToldInv, ToldTypes
  <2>2. CASE k = "dbg"
    BY <1>1, <2>2 DEF ToldInv, ToldTypes
  <2> QED BY <2>1, <2>2 DEF Deferred
<1>3. ToldTypes'
  BY <1>1, <1>2 DEF ToldInv, ToldTypes
<1>4. ASSUME NEW j \in Deferred, Told(j) PROVE Told(j)'
  <2>1. CASE j = k
    <3>1. pending'[j]
      BY <1>1, <2>1 DEF ToldInv, ToldTypes
    <3> QED BY <3>1 DEF Told
  <2>2. CASE j # k
    <3>1. ram'[j] = ram[j] /\ pending'[j] = pending[j]
      BY <1>1, <2>2 DEF ToldInv, ToldTypes, Deferred
    <3> QED BY <1>1, <1>4, <3>1 DEF Told, At
  <2> QED BY <2>1, <2>2
<1> QED BY <1>1, <1>3, <1>4 DEF ToldInv, Deferred

LEMMA TaskTold ==
  ASSUME ToldInv, (\E k \in Deferred : apply_cb(k)) \/ StateWorking \/ ReadSetting \/ ApplySetting
  PROVE  ToldInv'
<1>1. ram' = ram /\ ToldTypes
  BY DEF apply_cb, StateWorking, ReadSetting, ApplySetting, BtTask, ToldInv
<1>2. CASE \E k \in Deferred : apply_cb(k)
  <2>1. PICK k \in Deferred : apply_cb(k)
    BY <1>2
  <2>2. /\ bt_task = AtRest /\ bt_task' = [at |-> "read", key |-> k]
        /\ pending' = [pending EXCEPT ![k] = FALSE] /\ queued' = [queued EXCEPT ![k] = FALSE]
        /\ UNCHANGED <<working, active>>
    BY <2>1 DEF apply_cb, BtTask
  <2>3. bt_task' \in Reads /\ bt_task'.at = "read" /\ bt_task'.key = k
    BY <2>2 DEF Reads
  <2>4. ToldTypes'
    BY <1>1, <2>2, <2>3 DEF ToldTypes
  <2>5. ASSUME NEW j \in Deferred, Told(j) PROVE Told(j)'
    <3>1. CASE j = k
      BY <2>3, <3>1 DEF Told, At
    <3>2. CASE j # k
      <4>1. pending'[j] = pending[j] /\ bt_task.at = "idle"
        BY <1>1, <2>2, <3>2, TaskAt DEF ToldTypes
      <4> QED BY <1>1, <2>2, <2>3, <2>5, <3>2, <4>1 DEF Told, At
    <3> QED BY <3>1, <3>2
  <2> QED BY <2>2, <2>4, <2>5 DEF ToldInv, Deferred
<1>3. CASE StateWorking
  <2>1. /\ bt_task = AtRest /\ bt_task' = [at |-> "read", key |-> "name"] /\ working' = TRUE
        /\ UNCHANGED <<queued, pending, active>>
    BY <1>3 DEF StateWorking, BtTask
  <2>2. bt_task' \in Reads /\ bt_task'.at = "read" /\ bt_task'.key = "name"
    BY <2>1 DEF Reads, Deferred
  <2>3. bt_task.at = "idle"
    BY <1>1, <2>1, TaskAt
  <2>4. ToldTypes'
    BY <1>1, <2>1, <2>2 DEF ToldTypes
  <2>5. Told("name")' /\ Told("dbg")'
    BY <1>1, <2>1, <2>2, <2>3 DEF Told, At, ToldInv
  <2> QED BY <2>4, <2>5 DEF ToldInv
<1>4. CASE ReadSetting
  <2>1. /\ bt_task.at = "read"
        /\ bt_task' = [at |-> "apply", key |-> bt_task.key, val |-> ram[bt_task.key]]
        /\ UNCHANGED <<queued, pending, working, active>>
    BY <1>4 DEF ReadSetting, BtTask
  <2>2. bt_task.key \in Deferred
    BY <1>1, <2>1, TaskAt
  <2>3. ram[bt_task.key] \in IF bt_task.key = "name" THEN NameVals ELSE FlagVals
    BY <1>1, <2>2 DEF ToldTypes, Deferred
  <2>4. /\ bt_task' \in Applies /\ bt_task'.at = "apply" /\ bt_task'.key = bt_task.key
        /\ bt_task'.val = ram[bt_task.key]
    BY <2>1, <2>2, <2>3 DEF Applies
  <2>5. ToldTypes'
    BY <1>1, <2>1, <2>3, <2>4 DEF ToldTypes
  <2>6. \A j : Told(j) => Told(j)'
    BY <1>1, <2>1, <2>4 DEF Told, At
  <2> QED BY <2>1, <2>5, <2>6 DEF ToldInv
<1>5. CASE ApplySetting
  <2> DEFINE j == bt_task.key
             e == Effective(j, bt_task.val, working)
  <2>1. /\ bt_task.at = "apply" /\ bt_task' = AtRest /\ active' = [active EXCEPT ![j] = e]
        /\ UNCHANGED <<queued, working, pending>>
    BY <1>5 DEF ApplySetting, BtTask
  <2>2. j \in Deferred /\ bt_task.val \in IF j = "name" THEN NameVals ELSE FlagVals
    BY <1>1, <2>1, TaskAt DEF ToldTypes
  <2>3. e \in IF j = "name" THEN ToldNames ELSE FlagVals
    BY <2>2 DEF Effective, EffectiveName, ToldNames
  <2> HIDE DEF e
  <2>4. active' \in [name : ToldNames, dbg : FlagVals]
    <3>1. CASE j = "name"
      BY <1>1, <2>1, <2>3, <3>1 DEF ToldTypes
    <3>2. CASE j = "dbg"
      BY <1>1, <2>1, <2>3, <3>2 DEF ToldTypes
    <3> QED BY <2>2, <3>1, <3>2 DEF Deferred
  <2>5. bt_task'.at = "idle"
    BY <2>1 DEF AtRest
  <2>6. ToldTypes'
    BY <1>1, <2>1, <2>4, <2>5 DEF ToldTypes
  <2>7. ASSUME NEW k \in Deferred, Told(k), k = "name" => working PROVE Told(k)'
    <3>1. CASE k = j
      <4>1. active'[k] = e
        BY <1>1, <2>1, <2>2, <3>1 DEF ToldTypes, Deferred
      <4>2. bt_task.val = ram[k] => e = Effective(k, ram[k], TRUE)
        <5>1. k = "name" => working = TRUE
          BY <1>1, <2>7 DEF ToldTypes
        <5> QED BY <3>1, <5>1 DEF Effective, e
      <4>3. ~pending[k] => bt_task.val = ram[k]
        BY <2>1, <2>7, <3>1 DEF Told, At
      <4> QED BY <1>1, <2>1, <2>5, <4>1, <4>2, <4>3 DEF Told, At
    <3>2. CASE k # j
      <4>1. active'[k] = active[k]
        BY <1>1, <2>1, <2>2, <2>7, <3>2 DEF ToldTypes, Deferred
      <4> QED BY <1>1, <2>1, <2>5, <2>7, <3>2, <4>1 DEF Told, At
    <3> QED BY <3>1, <3>2
  <2> QED BY <2>1, <2>6, <2>7 DEF ToldInv, Deferred
<1> QED BY <1>2, <1>3, <1>4, <1>5

LEMMA BootTold ==
  ASSUME SavedInv, Boot
  PROVE  ToldInv'
<1>1. /\ ram' = [name |-> nvs.name, dbg |-> nvs.dbg]
      /\ active' = [name |-> bt_name_init, dbg |-> nvs.dbg]
      /\ pending' = [k \in Deferred |-> FALSE] /\ queued' = [k \in Deferred |-> FALSE]
      /\ working' = FALSE /\ bt_task' = AtRest
  BY DEF Boot, nvs_name_load, debug_log_init, nvs_flags_load
<1>2. nvs.name \in NameVals /\ nvs.dbg \in FlagVals
  BY DEF SavedInv, SavedTypes
<1>3. bt_name_init \in ToldNames
  BY <1>2 DEF bt_name_init, nvs_name_load, ToldNames
<1>4. bt_task'.at = "idle"
  BY <1>1 DEF AtRest
<1>5. ToldTypes'
  BY <1>1, <1>2, <1>3, <1>4 DEF ToldTypes
<1>6. Told("dbg")'
  BY <1>1, <1>4 DEF Told, At, Effective
<1> QED BY <1>1, <1>5, <1>6 DEF ToldInv

LEMMA ToldStep ==
  ASSUME SavedInv, ToldInv, [SetNext]_setVars
  PROVE  ToldInv'
<1>1. CASE UNCHANGED deferred
  BY <1>1 DEF deferred, ToldInv, ToldTypes, Told, At
<1>2. CASE handler_name_post
  <2>1. PICK name \in NameVals : Set("name", name)
    BY <1>2 DEF handler_name_post, bt_name_set, NameVals
  <2>2. "name" \in Deferred /\ name \in IF "name" = "name" THEN NameVals ELSE FlagVals
    BY DEF Deferred
  <2> QED BY <2>1, <2>2, SetTold
<1>3. CASE handler_debug_post
  <2>1. PICK flags \in FlagVals : Set("dbg", flags)
    BY <1>3 DEF handler_debug_post, debug_log_set, FlagVals
  <2>2. "dbg" \in Deferred /\ flags \in IF "dbg" = "name" THEN NameVals ELSE FlagVals
    BY DEF Deferred
  <2> QED BY <2>1, <2>2, SetTold
<1>4. CASE EnqueueApply
  <2>1. /\ UNCHANGED <<ram, active, pending, working, bt_task>>
        /\ queued' = [queued EXCEPT ![httpd.key] = @ \/ httpd.add] /\ httpd.at = "enqueue"
    BY <1>4 DEF EnqueueApply
  <2>2. httpd \in Saves
    BY <2>1, Requests DEF SavedInv
  <2>3. httpd.key \in Deferred
    BY <2>2 DEF Saves
  <2>4. (queued[httpd.key] \/ httpd.add) \in BOOLEAN
    OBVIOUS
  <2>5. queued' \in [Deferred -> BOOLEAN]
    BY <2>1, <2>3, <2>4 DEF ToldInv, ToldTypes
  <2> QED BY <2>1, <2>5 DEF ToldInv, ToldTypes, Told, At
<1>5. CASE (\E m \in Modes : handler_security_post(m)) \/ handler_proxy_post \/ handler_reboot
  BY <1>1, <1>5 DEF handler_security_post, handler_proxy_post, handler_reboot
<1>6. CASE SaveDeferred \/ LongPress \/ ButtonSave \/ SaveProxyKey \/ UNCHANGED setVars
  BY <1>1, <1>6 DEF SaveDeferred, LongPress, ButtonSave, SaveProxyKey, setVars
<1>7. CASE Boot
  BY <1>7, BootTold
<1> QED BY <1>2, <1>3, <1>4, <1>5, <1>6, <1>7, TaskTold
        DEF SetNext, reboot_task, ButtonReboot, PowerCut

(* bt_name.c:121-127, 185-200; debug_log.c: with nothing under way BTstack *)
(* has the last name and switches, however changes and callbacks met.      *)
THEOREM LastChoiceHolds == SetSpec => []LastChoiceApplied
<1>1. ASSUME SavedInv, ToldInv, [SetNext]_setVars PROVE SavedInv' /\ ToldInv'
  BY <1>1, SavedStep, ToldStep
<1>2. ASSUME ToldInv PROVE LastChoiceApplied
  <2>1. bt_task = AtRest => bt_task.at = "idle"
    BY <1>2, TaskAt DEF ToldInv
  <2>2. Quiet("name") => active["name"] = Effective("name", ram["name"], TRUE)
    BY <1>2, <2>1 DEF ToldInv, Told, At, Quiet
  <2>3. Quiet("dbg") => active["dbg"] = Effective("dbg", ram["dbg"], TRUE)
    BY <1>2, <2>1 DEF ToldInv, Told, At, Quiet
  <2> QED BY <2>2, <2>3 DEF LastChoiceApplied, Effective, handler_name_get, handler_debug_get
<1> QED BY <1>1, <1>2, SavedStart, ToldStart, PTL DEF SetSpec
=============================================================================
