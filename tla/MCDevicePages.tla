--------------------------- MODULE MCDevicePages ----------------------------
(***************************************************************************)
(* DevicePages for TLC.  A run is of one of the modules, which the initial *)
(* state chooses; the others stay in one state of theirs.                  *)
(***************************************************************************)
EXTENDS DevicePages, TLC

CONSTANTS w1, w2, c1, a1

VARIABLE which

Mice == {{"dpi"}, {"dpi", "dpi_stages"}, {"macro_logic"}, {"lighting"}}

Plugged == {{"dock", "board"}, {"card", "mouse"}, {"camera", "yubi"}, {"receiver", "panel"}, {"pad"}}

PagesInit ==
    /\ which \in {"razer", "creative", "8bitdo", "key", "camera", "monitor", "sweep", "files"}
    /\ Rz!Init /\ (which # "razer" => rzHas = {"dpi"} /\ rzHw.dpi["x"] = 1 /\ rzHw.effect = "static")
    /\ Cr!Init /\ (which # "creative" => crCard = "open" /\ crHw.out = "line" /\ ~crHw.sxfi)
    /\ Eb!Init /\ (which # "8bitdo" => ebLink = "usb" /\ ebPad.live[2] = <<"m", "b">>)
    /\ Sk!Init /\ (which # "key" => skKind = "fido" /\ ~skKey.pin)
    /\ Uv!Init /\ (which # "camera" => ~uvCam.auto)
    /\ Dm!Init
    /\ Ds!Init /\ (which # "sweep" => DOMAIN dsAt = {"pad"})
    /\ Vf!Init /\ (which # "files" => vfSource = "fetch")

PagesNext ==
    /\ UNCHANGED which
    /\ \/ which = "razer" /\ Rz!Next /\ UNCHANGED <<crVars, ebVars, skVars, uvVars, dmVars, dsVars, vfVars>>
       \/ which = "creative" /\ Cr!Next /\ UNCHANGED <<rzVars, ebVars, skVars, uvVars, dmVars, dsVars, vfVars>>
       \/ which = "8bitdo" /\ Eb!Next /\ UNCHANGED <<rzVars, crVars, skVars, uvVars, dmVars, dsVars, vfVars>>
       \/ which = "key" /\ Sk!Next /\ UNCHANGED <<rzVars, crVars, ebVars, uvVars, dmVars, dsVars, vfVars>>
       \/ which = "camera" /\ Uv!Next /\ UNCHANGED <<rzVars, crVars, ebVars, skVars, dmVars, dsVars, vfVars>>
       \/ which = "monitor" /\ Dm!Next /\ UNCHANGED <<rzVars, crVars, ebVars, skVars, uvVars, dsVars, vfVars>>
       \/ which = "sweep" /\ Ds!Next /\ UNCHANGED <<rzVars, crVars, ebVars, skVars, uvVars, dmVars, vfVars>>
       \/ which = "files" /\ Vf!Next /\ UNCHANGED <<rzVars, crVars, ebVars, skVars, uvVars, dmVars, dsVars>>

PagesSpec == PagesInit /\ [][PagesNext]_<<which, vars>>

Symmetry == Permutations(Mons) \cup Permutations(Ports) \cup Permutations(Sweeps)
=============================================================================
