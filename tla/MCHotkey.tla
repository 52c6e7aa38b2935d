------------------------------ MODULE MCHotkey ------------------------------
(* The shipped hotkey, Ctrl+Shift+V or Cmd+Shift+V, with "mod" for Ctrl or    *)
(* Cmd, on every platform with a keyboard listener.                           *)
EXTENDS Hotkey

ShippedChord     == {"mod", "shift", "v"}
ShippedModifiers == {"mod", "shift"}
AllPlatforms     == {"Windows", "Darwin", "Linux"}
Typing           == {"Windows", "Darwin"}
=============================================================================
