---------------------------- MODULE MCSaveClient ----------------------------
(* Small instances of SaveClient: which events may meet in one behaviour. *)
EXTENDS SaveClient

Holds == {{"press", "other", "wire"}, {"press", "preview", "soon", "wire"},
          {"press", "exit", "other"}}
Faulty == {{"other", "timeout", "again", "restart"}, {"press", "timeout", "again", "restart"},
           {"press", "timeout", "error", "again"}}
Unstamped == {{"press", "other", "overwrite", "bare", "error"},
              {"other", "overwrite", "bare", "timeout"}}
Everyday == Holds \cup Faulty \cup Unstamped

AgentWorks == {{"press", "wire"}}
ExitRefused == {{"exit", "typed"}}
ParkedThenSaved == {{"press", "exit", "typed"}}
OfflineThenBack == {{"press", "other", "overwrite", "bare", "error"}}
Overtaken == {{"other"}}
HeldThenExit == {{"press", "preview", "exit"}}
=============================================================================
