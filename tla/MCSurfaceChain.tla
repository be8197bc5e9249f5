---------------------------- MODULE MCSurfaceChain ----------------------------
(***************************************************************************)
(* TLC instance: a type that may refer to a second, which may refer to the *)
(* third, and either is there or not; the first also has a keyword that is *)
(* not emitted.  One method, a call or a job, and two events, one of them  *)
(* named after the method.                                                 *)
(***************************************************************************)
EXTENDS SurfaceChain, TLC

Body(text, refs, note) == [text |-> text, refs |-> refs, note |-> note]

Chain(state, note) ==
  ("Entry" :> Body("entry", {"Status"}, note)) @@ ("Status" :> Body("status", {"State"}, "")) @@
  ("State" :> Body(state, {}, ""))

Alone == "Status" :> Body("alone", {}, "")

MCDefs ==
  {Chain("two", ""), Chain("three", ""), Chain("two", "title"),
   ("Entry" :> Body("entry", {"Status"}, "")) @@ Alone, Alone}

Nothing == [x \in {} |-> {}]

MCMethods(defs) ==
  {Nothing, "query" :> [job |-> TRUE, refs |-> {"Status"}]} \cup
  {"query" :> [job |-> FALSE, refs |-> {t}] : t \in DOMAIN defs \cap {"Entry", "Status"}}

MCEvents == {Nothing} \cup {e :> [refs |-> {"Status"}] : e \in {"query", "alert"}}

MCReleases ==
  UNION {{[defs |-> defs, methods |-> methods, events |-> events] :
             methods \in MCMethods(defs), events \in MCEvents} : defs \in MCDefs}

MCHandKept == [call |-> {"virt", "choices"}, job |-> {"virtJob"}, event |-> {"virtEvent"}]

NoneExact == [call |-> {}, job |-> {}, event |-> {}]

\* The second version drops a namespace, the third one call.
MCHandRemoved ==
  [i \in 2..MaxVersions |->
     IF i = 2 THEN [prefixed |-> {"virt", "virtJob", "virtEvent"}, exact |-> NoneExact]
     ELSE [prefixed |-> {}, exact |-> [NoneExact EXCEPT !.call = {"choices"}]]]
=============================================================================
