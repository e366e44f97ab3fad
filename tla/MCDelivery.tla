----------------------------- MODULE MCDelivery -----------------------------
(***************************************************************************)
(* The components that bring images, containers and objects to where they  *)
(* are wanted, side by side. In every behaviour one of them moves and the  *)
(* others rest, so that their state spaces add up and do not multiply.     *)
(***************************************************************************)
EXTENDS LifecycleWatchdog, ImageRegistry, ImageUpdater, Deployments, RegistryObjects,
        WatchStreams, StoreBoot, SelfUpdate

VARIABLE part      \* the component that moves

Parts == {"watchdog", "registry", "updater", "deployments", "objects", "streams",
          "boot", "pair"}
vars == <<part, watchVars, registryVars, updVars, depVars, regVars, streamVars,
          bootVars, selfVars>>

\* A component that rests starts in one state only.
Init ==
  /\ part \in Parts
  /\ WatchInit /\ RegistryInit /\ UpdInit /\ DepInit /\ RegInit /\ StreamInit /\ BootInit
  /\ SelfInit
  /\ upstream = CHOOSE c \in Contents : TRUE
  /\ part # "updater" => replacing
  /\ part # "streams" => objUnsaved = {}
  /\ part # "pair" => Working("mkube")

OthersRest ==
  /\ UNCHANGED part
  /\ part # "watchdog"    => UNCHANGED watchVars
  /\ part # "registry"    => UNCHANGED registryVars
  /\ part # "updater"     => UNCHANGED updVars
  /\ part # "deployments" => UNCHANGED depVars
  /\ part # "objects"     => UNCHANGED regVars
  /\ part # "streams"     => UNCHANGED streamVars
  /\ part # "boot"        => UNCHANGED bootVars
  /\ part # "pair"        => UNCHANGED selfVars

Next ==
  \/ part = "watchdog"    /\ WatchNext    /\ OthersRest
  \/ part = "registry"    /\ RegistryNext /\ OthersRest
  \/ part = "updater"     /\ UpdNext      /\ OthersRest
  \/ part = "deployments" /\ DepNext      /\ OthersRest
  \/ part = "objects"     /\ RegNext      /\ OthersRest
  \/ part = "streams"     /\ StreamNext   /\ OthersRest
  \/ part = "boot"        /\ BootNext     /\ OthersRest
  \/ part = "pair"        /\ SelfNext     /\ OthersRest

\* The fairness of each component's own specification, while it is the one that moves.
Fairness ==
  /\ WF_watchVars(part = "watchdog" /\ CheckAll)
  /\ WF_watchVars(part = "watchdog" /\ OnFailed)
  /\ WF_watchVars(part = "watchdog" /\ CoolDown)
  /\ WF_registryVars(part = "registry" /\ WatcherNext)
  /\ WF_registryVars(part = "registry" /\ SyncerNext)
  /\ WF_registryVars(part = "registry" /\ PutBlob("puller"))
  /\ WF_updVars(part = "updater" /\ UpdStep)
  /\ WF_depVars(part = "deployments" /\ CycleStepD)
  /\ WF_regVars(part = "objects" /\ RegCycle)
  /\ WF_regVars(part = "objects" /\ RegHandler)
  /\ WF_regVars(part = "objects" /\ ImageReturns)
  /\ WF_streamVars(part = "streams" /\ StreamServes)
  /\ WF_selfVars(part = "pair" /\ UpdaterStep)
  /\ WF_selfVars(part = "pair" /\ ServerStep)
  /\ WF_selfVars(part = "pair" /\ (\E c \in Pair : Stops(c)))

Spec == Init /\ [][Next]_vars /\ Fairness

\* The types of every component (see each module).
TypeOK ==
  /\ part \in Parts
  /\ WatchTypeOK /\ RegistryTypeOK /\ UpdTypeOK /\ DepTypeOK /\ RegTypeOK /\ StreamTypeOK
  /\ BootTypeOK /\ SelfTypeOK

\* RegistriesMeet holds of the component that moves.
RegistriesMeetAgain == part = "registry" => RegistriesMeet
=============================================================================
