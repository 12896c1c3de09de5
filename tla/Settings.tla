------------------------------ MODULE Settings ------------------------------
(***************************************************************************)
(* The settings a user changes while the bridge runs: the Bluetooth name   *)
(* (bt_name.c) and the logging switches (debug_log.c), which the BTstack   *)
(* task applies when it gets to it; the serial channel's security, which   *)
(* takes a reboot and can also be changed with the BOOT button             *)
(* (sec_button.c); and the HTTP proxy (http_proxy.c), which applies at     *)
(* once.  All are kept in NVS and read back at boot.  "" is a key that is  *)
(* not stored; the web pages are web_ui.c's.                               *)
(***************************************************************************)
EXTENDS Naturals

CONSTANTS Names, Flags,        \* custom names; switches that may be on
          Proxies,             \* <<host, port>> of the presets and of custom entries
          MaxChanges, MaxBoots, MaxNvsFaults    \* bounds

ASSUME SettingsAssumption ==
  /\ "" \notin Names \union Flags
  /\ MaxChanges \in Nat /\ MaxBoots \in Nat /\ MaxNvsFaults \in Nat

VARIABLES
  nvs,                       \* flash
  ram, active,               \* name_custom and dbg_flags; what BTstack was told
  pending, queued,           \* apply_pending; apply_cb_reg is on the run loop's list
  working,                   \* the controller is up and its address known
  bt_task, httpd, button,    \* where the three tasks are
  link_mode, px, rebooting,
  chosen, doubt,             \* ghosts: the last choice; choices NVS need not have
  changes, boots, nvs_faults

deferred == <<ram, active, pending, queued, working, bt_task>>
history == <<chosen, doubt>>
counts == <<changes, boots, nvs_faults>>
setVars == <<nvs, deferred, httpd, button, link_mode, px, rebooting, history, counts>>

Deferred == {"name", "dbg"}
Modes == {"auto", "off", "on"}
NoProxy == [on |-> FALSE, host |-> "", port |-> ""]
AtRest == [at |-> "idle"]

\* The name used without a custom one is made from the controller's address.
EffectiveName(custom, addr) ==
  IF custom # "" THEN custom ELSE IF addr THEN "derived" ELSE "of no address"
Effective(k, v, addr) == IF k = "name" THEN EffectiveName(v, addr) ELSE v

nvs_name_load == nvs.name
nvs_flags_load == nvs.dbg
nvs_secure_load == IF nvs.sec \in {"off", "on"} THEN nvs.sec ELSE "auto"
settings_load == nvs.px

SetInit ==
  /\ nvs = [name |-> "", dbg |-> "", sec |-> "", px |-> NoProxy]
  /\ ram = [name |-> "", dbg |-> ""] /\ active = [name |-> "prefix", dbg |-> ""]
  /\ pending = [k \in Deferred |-> FALSE] /\ queued = [k \in Deferred |-> FALSE]
  /\ working = FALSE /\ bt_task = AtRest /\ httpd = AtRest /\ button = AtRest
  /\ link_mode = "auto" /\ px = NoProxy /\ rebooting = FALSE
  /\ chosen = [name |-> "", dbg |-> "", sec |-> "auto", px |-> NoProxy]
  /\ doubt = {}
  /\ changes = 0 /\ boots = 0 /\ nvs_faults = 0

-----------------------------------------------------------------------------
(* A name or a set of switches, from the web server's task. *)

HttpdIdle == httpd = AtRest /\ changes < MaxChanges

\* The critical section of bt_name_set() and debug_log_set().
Set(k, v) ==
  /\ ram' = [ram EXCEPT ![k] = v]
  /\ pending' = [pending EXCEPT ![k] = TRUE]
  /\ httpd' = [at |-> "save", key |-> k, val |-> v, add |-> ~pending[k]]
  /\ chosen' = [chosen EXCEPT ![k] = v] /\ doubt' = doubt \union {k}
  /\ changes' = changes + 1
  /\ UNCHANGED <<nvs, active, queued, working, bt_task, button, link_mode, px,
                 rebooting, boots, nvs_faults>>

bt_name_set(name) == HttpdIdle /\ Set("name", name)
debug_log_set(flags) == HttpdIdle /\ Set("dbg", flags)

handler_name_post == \E name \in Names \union {""} : bt_name_set(name)
handler_debug_post == \E flags \in Flags \union {""} : debug_log_set(flags)

\* Mutant: clearing the name is not written down.
nvs_name_save_set_only(name) == IF name = "" THEN nvs.name ELSE name

nvs_name_save(name) == name             \* the key is erased for ""
nvs_flags_save(flags) == flags
Stored(k, v) == IF k = "name" THEN nvs_name_save(v) ELSE nvs_flags_save(v)

\* nvs_open() fails: the choice holds until the next boot.
NvsFails == nvs_faults < MaxNvsFaults /\ nvs_faults' = nvs_faults + 1 /\ UNCHANGED <<nvs, doubt>>

SaveDeferred ==
  /\ httpd.at = "save"
  /\ \/ /\ nvs' = [nvs EXCEPT ![httpd.key] = Stored(httpd.key, httpd.val)]
        /\ doubt' = doubt \ {httpd.key} /\ UNCHANGED nvs_faults
     \/ NvsFails
  /\ httpd' = [httpd EXCEPT !.at = "enqueue"]
  /\ UNCHANGED <<deferred, button, link_mode, px, rebooting, chosen, changes, boots>>

\* btstack_run_loop_execute_on_main_thread().
EnqueueApply ==
  /\ httpd.at = "enqueue" /\ httpd' = AtRest
  /\ queued' = [queued EXCEPT ![httpd.key] = @ \/ httpd.add]
  /\ UNCHANGED <<nvs, ram, active, pending, working, bt_task, button, link_mode,
                 px, rebooting, history, counts>>

-----------------------------------------------------------------------------
(* The BTstack task. *)

BtTask(step) ==
  /\ step
  /\ UNCHANGED <<nvs, ram, httpd, button, link_mode, px, rebooting, history, counts>>

\* apply_cb(): off the list, and the flag before the setting is read.
apply_cb(k) ==
  BtTask(/\ bt_task = AtRest /\ queued[k]
         /\ queued' = [queued EXCEPT ![k] = FALSE]
         /\ pending' = [pending EXCEPT ![k] = FALSE]
         /\ bt_task' = [at |-> "read", key |-> k]
         /\ UNCHANGED <<working, active>>)

\* The controller is up: hci_packet_handler() sets the name.
StateWorking ==
  BtTask(/\ ~working /\ bt_task = AtRest /\ working' = TRUE
         /\ bt_task' = [at |-> "read", key |-> "name"]
         /\ UNCHANGED <<queued, pending, active>>)

\* bt_name_apply_from_addr() and apply_to_hci_dump(): read, then set.
ReadSetting ==
  BtTask(/\ bt_task.at = "read"
         /\ bt_task' = [at |-> "apply", key |-> bt_task.key, val |-> ram[bt_task.key]]
         /\ UNCHANGED <<queued, pending, working, active>>)

\* Mutant: the flag is given back only when the work is done.
ApplySetting_then_clear ==
  BtTask(/\ bt_task.at = "apply" /\ bt_task' = AtRest
         /\ active' = [active EXCEPT ![bt_task.key] = Effective(bt_task.key, bt_task.val, working)]
         /\ pending' = [pending EXCEPT ![bt_task.key] = FALSE]
         /\ UNCHANGED <<queued, working>>)

ApplySetting ==
  BtTask(/\ bt_task.at = "apply" /\ bt_task' = AtRest
         /\ active' = [active EXCEPT ![bt_task.key] = Effective(bt_task.key, bt_task.val, working)]
         /\ UNCHANGED <<queued, pending, working>>)

-----------------------------------------------------------------------------
(* The security of the serial channel. *)

\* ppp_link_secure_save(); "auto" is stored as no key.
ppp_link_secure_save(mode) ==
  /\ chosen' = [chosen EXCEPT !.sec = mode]
  /\ \/ /\ nvs' = [nvs EXCEPT !.sec = IF mode = "auto" THEN "" ELSE mode]
        /\ doubt' = doubt \ {"sec"} /\ UNCHANGED nvs_faults
     \/ /\ nvs_faults < MaxNvsFaults /\ nvs_faults' = nvs_faults + 1
        /\ doubt' = doubt \union {"sec"} /\ UNCHANGED nvs

\* The mode in effect is dropped, also when another one is saved already.
handler_security_post(mode) ==
  /\ HttpdIdle /\ changes' = changes + 1
  /\ IF mode = link_mode
     THEN /\ chosen' = [chosen EXCEPT !.sec = mode]
          /\ doubt' = IF nvs_secure_load = mode THEN doubt ELSE doubt \union {"sec"}
          /\ UNCHANGED <<nvs, nvs_faults, rebooting>>
     ELSE /\ ppp_link_secure_save(mode)
          /\ rebooting' \in {TRUE, rebooting}      \* the task that reboots, or no memory for it
  /\ UNCHANGED <<deferred, httpd, button, link_mode, px, boots>>

NextMode == [off |-> "on", on |-> "auto", auto |-> "off"]

\* sec_button_task(): a long press, from the value that is saved.
LongPress ==
  /\ button = AtRest /\ changes < MaxChanges /\ changes' = changes + 1
  /\ button' = [at |-> "save", mode |-> NextMode[nvs_secure_load]]
  /\ UNCHANGED <<nvs, deferred, httpd, link_mode, px, rebooting, history, boots, nvs_faults>>

ButtonSave ==
  /\ button.at = "save" /\ button' = [at |-> "wait_release"]
  /\ ppp_link_secure_save(button.mode)
  /\ UNCHANGED <<deferred, httpd, link_mode, px, rebooting, changes, boots>>

-----------------------------------------------------------------------------
(* The HTTP proxy: in effect at once, three keys one after the other. *)

proxy_set(p) ==
  /\ px' = p
  /\ chosen' = [chosen EXCEPT !.px = p]
  /\ doubt' = doubt \union {"px"}
  /\ httpd' = [at |-> "on", val |-> p]

\* "off" keeps host and port; the others are a preset or a custom entry.
handler_proxy_post ==
  /\ HttpdIdle /\ changes' = changes + 1
  /\ \/ proxy_set([px EXCEPT !.on = FALSE])
     \/ \E p \in Proxies : proxy_set([on |-> TRUE, host |-> p[1], port |-> p[2]])
  /\ UNCHANGED <<nvs, deferred, button, link_mode, rebooting, boots, nvs_faults>>

AfterKey == [on |-> "host", host |-> "port", port |-> "idle"]

\* One of proxy_set()'s writes; nvs_open() may fail before the first.
SaveProxyKey ==
  /\ httpd.at \in DOMAIN AfterKey
  /\ \/ /\ nvs' = [nvs EXCEPT !.px[httpd.at] = httpd.val[httpd.at]]
        /\ httpd' = IF httpd.at = "port" THEN AtRest ELSE [httpd EXCEPT !.at = AfterKey[@]]
        /\ doubt' = IF httpd.at = "port" THEN doubt \ {"px"} ELSE doubt
        /\ UNCHANGED nvs_faults
     \/ httpd.at = "on" /\ NvsFails /\ httpd' = AtRest
  /\ UNCHANGED <<deferred, button, link_mode, px, rebooting, chosen, changes, boots>>

-----------------------------------------------------------------------------
(* Boot, with what NVS has: bt_name_init(), debug_log_init() and
   debug_log_bt_setup(), ppp_link's and http_proxy's settings. *)

handler_reboot ==
  /\ HttpdIdle /\ ~rebooting /\ rebooting' = TRUE
  /\ UNCHANGED <<nvs, deferred, httpd, button, link_mode, px, history, counts>>

bt_name_init == IF nvs_name_load = "" THEN "prefix" ELSE nvs_name_load
debug_log_init == nvs_flags_load

Boot ==
  /\ boots < MaxBoots /\ boots' = boots + 1
  /\ ram' = [name |-> nvs_name_load, dbg |-> debug_log_init]
  /\ active' = [name |-> bt_name_init, dbg |-> debug_log_init]
  /\ pending' = [k \in Deferred |-> FALSE] /\ queued' = [k \in Deferred |-> FALSE]
  /\ working' = FALSE /\ bt_task' = AtRest /\ httpd' = AtRest /\ button' = AtRest
  /\ link_mode' = nvs_secure_load /\ px' = settings_load
  /\ rebooting' = FALSE
  /\ UNCHANGED <<nvs, history, changes, nvs_faults>>

reboot_task == rebooting /\ Boot
ButtonReboot == button.at = "wait_release" /\ Boot
PowerCut == Boot

SetNext ==
  \/ handler_name_post \/ handler_debug_post \/ SaveDeferred \/ EnqueueApply
  \/ \E k \in Deferred : apply_cb(k)
  \/ StateWorking \/ ReadSetting \/ ApplySetting
  \/ \E m \in Modes : handler_security_post(m)
  \/ LongPress \/ ButtonSave
  \/ handler_proxy_post \/ SaveProxyKey
  \/ handler_reboot \/ reboot_task \/ ButtonReboot \/ PowerCut

-----------------------------------------------------------------------------
(* What the pages say. *)
handler_name_get == [shown |-> active.name, field |-> ram.name]
handler_debug_get == ram.dbg
handler_security_get == link_mode
handler_proxy_get == px

Quiet(k) == working /\ httpd = AtRest /\ bt_task = AtRest /\ ~pending[k]

(* bt_name.c:121-127, 185-200; debug_log.c: with nothing under way BTstack
   has been told the last name and the last switches, however the changes and
   the run loop's callbacks met, and the pages say so. *)
LastChoiceApplied ==
  /\ Quiet("name") => handler_name_get.shown = EffectiveName(handler_name_get.field, TRUE)
  /\ Quiet("dbg") => active.dbg = handler_debug_get

InEffect ==
  [name |-> handler_name_get.field, dbg |-> handler_debug_get,
   sec |-> handler_security_get, px |-> handler_proxy_get]

(* bt_name.c:59-83, debug_log.c:41-61, ppp_link.c:79-116, http_proxy.c:120-160:
   what the user chose last is in effect after a reboot, whenever the reboot
   comes and whichever of the page and the button chose, unless writing it
   down failed or was cut short, or the security page dropped it. *)
KeptAcrossReboot ==
  [][boots' # boots =>
       \A k \in DOMAIN chosen \ doubt : InEffect'[k] = chosen[k]]_setVars
=============================================================================
