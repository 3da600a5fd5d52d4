------------------------------- MODULE MCDaemon -------------------------------
(***************************************************************************)
(* Managers of the daemon that share no state, checked in one run: each    *)
(* behaviour gives work to one of them, the others stay as they began.     *)
(***************************************************************************)
EXTENDS PromptBroker, DdcBrightness, BluetoothDevices, WlrOutputs, GammaControl,
        ClipboardHistory, WallpaperSchedule, SysUpdate

CONSTANTS n1, n2, s1, k1, d1, v1, v2, r1, r2, b1, p1, p2, y1, a1, o1, o2, l1, l2,
          x1, x2, h1, h2, m1, c1

VARIABLE part   \* the manager this behaviour is about

MCByPath == [n \in Nets |-> n]

Prompts ==
    /\ part = "prompts" /\ PromptNext
    /\ UNCHANGED <<part, ddcVars, btVars, wlrVars, gammaVars, clipVars, wallVars, updateVars>>
Brightness ==
    /\ part = "brightness" /\ DdcNext
    /\ UNCHANGED <<part, promptVars, btVars, wlrVars, gammaVars, clipVars, wallVars, updateVars>>
Bluetooth ==
    /\ part = "bluetooth" /\ BtNext
    /\ UNCHANGED <<part, promptVars, ddcVars, wlrVars, gammaVars, clipVars, wallVars, updateVars>>
Outputs ==
    /\ part = "outputs" /\ WlrNext
    /\ UNCHANGED <<part, promptVars, ddcVars, btVars, gammaVars, clipVars, wallVars, updateVars>>
\* The night light's properties say nothing once changes have crossed: then nothing new happens.
Gamma ==
    /\ part = "gamma" /\ GammaNext /\ (crossed => UNCHANGED events)
    /\ UNCHANGED <<part, promptVars, ddcVars, btVars, wlrVars, clipVars, wallVars, updateVars>>
Clipboard ==
    /\ part = "clipboard" /\ ClipNext
    /\ UNCHANGED <<part, promptVars, ddcVars, btVars, wlrVars, gammaVars, wallVars, updateVars>>
Wallpaper ==
    /\ part = "wallpaper" /\ WallNext
    /\ UNCHANGED <<part, promptVars, ddcVars, btVars, wlrVars, gammaVars, clipVars, updateVars>>
Updates ==
    /\ part = "updates" /\ UpdateNext
    /\ UNCHANGED <<part, promptVars, ddcVars, btVars, wlrVars, gammaVars, clipVars, wallVars>>

\* A part that is not asked to do anything begins in one way.
MCInit ==
    /\ part \in {"prompts", "brightness", "bluetooth", "outputs", "gamma", "clipboard",
                 "wallpaper", "updates"}
    /\ PromptInit /\ DdcInit /\ BtInit /\ WlrInit /\ GammaInit /\ ClipInit /\ WallInit
    /\ UpdateInit
    /\ part # "bluetooth" => \A d \in BtDevices : bluez[d] = "absent"
    /\ part # "gamma" => ~gammaEnabled
    /\ part # "clipboard" => ~autoClear /\ ~clearAtStartup
    /\ part # "updates" => backends = {}
MCNext ==
    \/ Prompts \/ Brightness \/ Bluetooth \/ Outputs \/ Gamma \/ Clipboard \/ Wallpaper
    \/ Updates
MCSpec ==
    MCInit /\ [][MCNext]_<<part, promptVars, ddcVars, btVars, wlrVars, gammaVars, clipVars,
                          wallVars, updateVars>>
\* Every manager's variables range over what the program can hold.
DaemonTypeOK ==
    /\ PromptTypeOK /\ DdcTypeOK /\ BtTypeOK /\ WlrTypeOK
    /\ GammaTypeOK /\ ClipTypeOK /\ WallTypeOK /\ UpdateTypeOK
=============================================================================
