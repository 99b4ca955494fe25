------------------------------ MODULE ConfigEdits ------------------------------
(***************************************************************************)
(* The HV defaults saved from the web UI (api/app.py, hv_defaults_save;    *)
(* config.py, write_hv_defaults and load), the limits edited by hand, and  *)
(* the reload that tells every service (service.py, _handle_reload).       *)
(*                                                                         *)
(* Each request has a thread of its own, and all use one temporary file.   *)
(* A default is at most its limit or not there; the recipients (§4.4) are  *)
(* written in the same way.                                                *)
(***************************************************************************)
EXTENDS Naturals, FiniteSets

CONSTANTS
  Channels,
  Savers,          \* requests being served at the same time
  Limits,          \* limits channels.yaml may be given; a default is one of these values
  MaxSaves,        \* bound: saves asked for
  MaxTroubles      \* bound: hand edits, failures, restarts of the web UI

EditsAssumption == /\ IsFiniteSet(Channels) /\ Savers # {}
                   /\ Limits \subseteq Nat \ {0} /\ {MaxSaves, MaxTroubles} \subseteq Nat

NoDefault == 0
Defaults == [Channels -> Limits \cup {NoDefault}]

(* What a file holds: the texts written through each other in it.          *)
Texts == SUBSET Defaults

VARIABLES
  limit,       \* channels.yaml
  file,        \* hv_defaults.yaml
  tmp,         \* hv_defaults.yaml.tmp: is it there, who has it open, what is in it
  web,         \* state.config: limit and defaults
  service,     \* the configuration of a service that applies a reload
  saver,       \* each request: where it is, the values it saves
  toldWeb, toldService,    \* a reload on its way to the web UI, to the service
  untold,      \* history: the file or the limits changed and no reload said so since
  saves, troubles

files == <<limit, file, tmp>>
vars == <<files, web, service, saver, toldWeb, toldService, untold, saves, troubles>>

NoSave == [at |-> "idle", values |-> [c \in Channels |-> NoDefault]]
NoTmp == [there |-> FALSE, open |-> {}, text |-> {}]

TypeOK ==
  /\ limit \in Limits /\ file \in Texts
  /\ tmp \in [there : BOOLEAN, open : SUBSET Savers, text : Texts]
  /\ web \in [limit : Limits, defaults : Defaults]
  /\ service \in [limit : Limits, defaults : Defaults]
  /\ saver \in [Savers -> [at : {"idle", "open", "close", "replace", "reload", "tell"},
                           values : Defaults]]
  /\ {toldWeb, toldService, untold} \subseteq BOOLEAN

Within(defaults, l) == \A c \in Channels : defaults[c] <= l
Whole == Cardinality(file) = 1
Loads == Whole /\ \A defaults \in file : Within(defaults, limit)
OnDisk == [limit |-> limit, defaults |-> CHOOSE defaults \in file : TRUE]

Trouble == troubles < MaxTroubles /\ troubles' = troubles + 1
NoTrouble == UNCHANGED troubles

---------------------------------------------------------------------------
\* hv_defaults_save

Goes(s, where) == saver' = [saver EXCEPT ![s].at = where]
Ends(s) == saver' = [saver EXCEPT ![s] = NoSave]
Saving == {s \in Savers : saver[s].at # "idle"}
SaveStep == UNCHANGED <<limit, service, saves>>

(* Of the channels in the form the values typed, of the others those in    *)
(* memory; all within the limits in memory, or nothing is written.         *)
Save(s, form, typed) ==
  LET values == [c \in Channels |-> IF c \in form THEN typed[c] ELSE web.defaults[c]]
  IN /\ saver[s].at = "idle" /\ saves < MaxSaves /\ saves' = saves + 1
     /\ \A c \in form : typed[c] <= web.limit
     /\ saver' = [saver EXCEPT ![s] = [at |-> "open", values |-> values]]
     /\ UNCHANGED <<limit, file, tmp, web, service, toldWeb, toldService, untold>> /\ NoTrouble

OpenTmp(s) ==
  /\ saver[s].at = "open" /\ Goes(s, "close")
  /\ tmp' = [there |-> TRUE, open |-> tmp.open \cup {s}, text |-> {}]
  /\ UNCHANGED <<file, web, toldWeb, toldService, untold>> /\ NoTrouble /\ SaveStep

(* Written over what another request wrote: the longer of the two texts    *)
(* keeps its end.                                                          *)
CloseTmp(s) ==
  /\ saver[s].at = "close" /\ Goes(s, "replace")
  /\ \E rest \in {{}, tmp.text} :
       tmp' = [tmp EXCEPT !.open = @ \ {s}, !.text = rest \cup {saver[s].values}]
  /\ UNCHANGED <<file, web, toldWeb, toldService, untold>> /\ NoTrouble /\ SaveStep

(* os.replace: not while somebody has the file open, not when it is gone.  *)
Replace(s) ==
  /\ saver[s].at = "replace"
  /\ IF tmp.there /\ tmp.open = {}
       THEN \/ /\ file' = tmp.text /\ tmp' = NoTmp /\ untold' = TRUE /\ Goes(s, "reload")
               /\ NoTrouble
            \/ UNCHANGED <<file, tmp, untold>> /\ Ends(s) /\ Trouble
       ELSE UNCHANGED <<file, tmp, untold>> /\ Ends(s) /\ NoTrouble
  /\ UNCHANGED <<web, toldWeb, toldService>> /\ SaveStep

(* Loaded again before anything is said; written and not to be loaded, it  *)
(* stays written, and no other service is told.                            *)
TakesEffect == web' = OnDisk

ReloadAfter(s) ==
  /\ saver[s].at = "reload"
  /\ IF Loads THEN TakesEffect /\ Goes(s, "tell") ELSE UNCHANGED web /\ Ends(s)
  /\ UNCHANGED <<file, tmp, toldWeb, toldService, untold>> /\ NoTrouble /\ SaveStep

(* The changes are audited, every service is told, the operator reads that *)
(* it was saved.                                                           *)
Told == toldWeb' = TRUE /\ toldService' = TRUE
Tell(s) ==
  /\ saver[s].at = "tell" /\ Ends(s) /\ Told /\ untold' = FALSE
  /\ UNCHANGED <<file, tmp, web>> /\ NoTrouble /\ SaveStep

---------------------------------------------------------------------------
\* A reload reaches the web UI (_on_reload) and the service (_handle_reload)

Bug_Reloaded(config) == IF Loads THEN [config EXCEPT !.defaults = OnDisk.defaults] ELSE config
Reloaded(config) == IF Loads THEN OnDisk ELSE config

ReloadWeb ==
  /\ toldWeb /\ toldWeb' = FALSE /\ web' = Reloaded(web)
  /\ UNCHANGED <<files, service, saver, toldService, untold, saves>> /\ NoTrouble

ReloadService ==
  /\ toldService /\ toldService' = FALSE /\ service' = Reloaded(service)
  /\ UNCHANGED <<files, web, saver, toldWeb, untold, saves>> /\ NoTrouble

(* The message is lost on its way to the service.                          *)
ReloadLost ==
  /\ toldService /\ toldService' = FALSE /\ untold' = TRUE /\ Trouble
  /\ UNCHANGED <<files, web, service, saver, toldWeb, saves>>

---------------------------------------------------------------------------
\* By hand, and restarts

(* channels.yaml is edited; `xams-ctl reload` tells everybody, if what is  *)
(* there loads.                                                            *)
EditLimit(l) ==
  /\ l # limit /\ Trouble /\ limit' = l /\ untold' = TRUE
  /\ UNCHANGED <<file, tmp, web, service, saver, toldWeb, toldService, saves>>

CtlReload ==
  /\ untold /\ Loads /\ Told /\ untold' = FALSE
  /\ UNCHANGED <<files, web, service, saver, saves>> /\ NoTrouble

(* The web UI is restarted, in the middle of what it was doing; it starts  *)
(* with what loads.                                                        *)
RestartWeb ==
  /\ Loads /\ Trouble /\ web' = OnDisk /\ toldWeb' = FALSE
  /\ saver' = [s \in Savers |-> NoSave] /\ tmp' = [tmp EXCEPT !.open = {}]
  /\ UNCHANGED <<limit, file, service, toldService, untold, saves>>

---------------------------------------------------------------------------
Init ==
  /\ limit \in Limits /\ file = {[c \in Channels |-> NoDefault]} /\ tmp = NoTmp
  /\ web = OnDisk /\ service = OnDisk /\ saver = [s \in Savers |-> NoSave]
  /\ toldWeb = FALSE /\ toldService = FALSE /\ untold = FALSE
  /\ saves = 0 /\ troubles = 0

Serve(s) == OpenTmp(s) \/ CloseTmp(s) \/ Replace(s) \/ ReloadAfter(s) \/ Tell(s)
Next ==
  \/ \E s \in Savers : \/ Serve(s)
                       \/ \E form \in SUBSET Channels : \E typed \in Defaults : Save(s, form, typed)
  \/ ReloadWeb \/ ReloadService \/ ReloadLost
  \/ (\E l \in Limits : EditLimit(l)) \/ CtlReload \/ RestartWeb
Spec == Init /\ [][Next]_vars

---------------------------------------------------------------------------
\* Properties

(* Once everybody was told, and nobody edited a file behind the system's   *)
(* back, every service has the limits and the defaults of the files,       *)
(* whatever order saves, reloads and refusals came in.                     *)
EverybodyFollows ==
  ~untold /\ ~toldService /\ ~toldWeb /\ Saving = {} /\ Loads =>
    service = OnDisk /\ web = OnDisk

(* Not kept by the code (README, Divergences): the file is whole, it can   *)
(* be loaded by a service that starts, and a save reported as saved is     *)
(* ("if the file we just wrote does not load, saying saved would be a      *)
(* lie", app.py 648).                                                      *)
FileIsWhole == Whole
ServicesCanStart == Loads
SavedMeansSaved ==
  [][\A s \in Savers : saver[s].at = "tell" /\ saver'[s].at = "idle" /\ toldService'
       => file = {saver[s].values}]_vars
===============================================================================
