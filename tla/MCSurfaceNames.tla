---------------------------- MODULE MCSurfaceNames ----------------------------
(***************************************************************************)
(* TLC instance: App may refer to Status, which may refer to AppInput, so  *)
(* that the name of a split App's inputs is taken.  Documents come from    *)
(* the App service or another, whose name before App's is taken as well.   *)
(***************************************************************************)
EXTENDS SurfaceNames

App == <<"App">>
Status == <<"Status">>
AppInput == <<"App", "Input">>
PoolApp == <<"Pool", "App">>

Definition(text, refs) == [text |-> text, refs |-> refs]

MCDefs ==
  {[n \in {App, Status, AppInput, PoolApp} |->
      CASE n = App -> Definition("app", ofApp)
        [] n = Status -> Definition("status", ofStatus)
        [] n = PoolApp -> Definition("pool app", {})
        [] OTHER -> Definition(text, {})] :
    ofApp \in {{}, {Status}}, ofStatus \in {{}, {AppInput}}, text \in {"two", "three"}}

MCDocuments == [mode : Modes, origin : {"App", "Pool"}, defs : MCDefs]
=============================================================================
