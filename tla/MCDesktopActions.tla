-------------------------- MODULE MCDesktopActions --------------------------
(* An instance of DesktopActions for TLC.                                  *)
EXTENDS DesktopActions

Save == {"save"}
SaveAs == {"save", "as"}
Screen(front, save, saveAs) ==
    [front |-> front, at |-> (Save :> save) @@ (SaveAs :> saveAs)]
Screens1 == { Screen("editor", 0, Hidden), Screen("browser", 1, 0) }

Asked1 ==
    { Command("APP_CONTROL", {"close"}, "it", {}),
      Command("APP_CONTROL", {"click"}, NoName, Save) }
Repaired1 ==
    { Command("UNKNOWN", {"install", "uninstall"}, "player", {}),
      Command("UNKNOWN", {}, NoName, {}) }
=============================================================================
