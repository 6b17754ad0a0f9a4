---------------------------- MODULE MCPluginHost ----------------------------
(* Model-checking instance of PluginHost: two server threads, two plugins,   *)
(* and one situation per scene.                                              *)
EXTENDS PluginHost

CONSTANTS t1, t2, A, B, u1, u2

MCThreads == {t1, t2}
MCPlugins == {A, B}

One(p, kind, u) == [pl |-> p, kind |-> kind, user |-> u]
Both(x, y) == [t \in MCThreads |-> IF t = t1 THEN x ELSE y]
Ab(x, y) == [p \in MCPlugins |-> IF p = A THEN x ELSE y]

Base ==
  [model |-> Ab("pooled", "singleton"), warm |-> Ab(<<1, 2>>, <<>>), fuel |-> Ab(0, 0),
   ops |-> Ab({}, {}), subs |-> Ab({}, {}), faults |-> {"trap"}, max |-> 3,
   calls |-> Both(<<One(A, "entry", u1)>>, <<One(A, "entry", u2)>>)]

\* What each scene adds to the base: database work, a user's files, system
\* files, outbound requests, streamed requests, fuel, events in a line and in
\* a circle of pooled plugins, a circle of singletons, and Plugin.Close.
SceneTable ==
  [database |-> [Base EXCEPT !.max = 4, !.ops = Ab({"db"}, {}), !.faults = {"trap", "db", "memory"}],
   hook |-> [Base EXCEPT !.max = 5, !.model = Ab("singleton", "singleton"), !.ops = Ab({"db", "read"}, {}),
               !.calls = Both(<<One(A, "hook", Nil)>>, <<>>)],
   userfiles |-> [Base EXCEPT !.max = 4, !.ops = Ab({"user"}, {}), !.faults = {"trap", "write"},
                    !.calls = Both(<<One(A, "entry", u1)>>, <<One(A, "entry", u1)>>)],
   sysfiles |-> [Base EXCEPT !.max = 4, !.ops = Ab({"system"}, {}), !.faults = {},
                   !.calls = Both(<<One(A, "entry", u1)>>, <<One(A, "entry", u2)>>)],
   reading |-> [Base EXCEPT !.model = Ab("per_request", "singleton"), !.ops = Ab({"read"}, {"read"}),
                  !.faults = {"trap", "instantiate", "memory"},
                  !.calls = Both(<<One(A, "entry", u1), One(B, "entry", u1)>>, <<One(A, "entry", u2), One(B, "entry", u2)>>)],
   http |-> [Base EXCEPT !.max = 5, !.ops = Ab({"http"}, {}), !.faults = {"trap", "http", "time"}, !.warm = Ab(<<1>>, <<>>)],
   request |-> [Base EXCEPT !.ops = Ab({"reqbody", "read"}, {}), !.faults = {"trap", "instantiate"},
                  !.calls = Both(<<One(A, "stream", u1), One(A, "request", u1)>>, <<One(A, "stream", u2)>>)],
   fuel |-> [Base EXCEPT !.ops = Ab({"read"}, {"read"}), !.fuel = Ab(2, 2), !.warm = Ab(<<1>>, <<>>),
               !.faults = {"trap", "instantiate"},
               !.calls = Both(<<One(A, "entry", u1), One(B, "entry", u1)>>, <<One(A, "request", u2), One(B, "entry", u2)>>)],
   line |-> [Base EXCEPT !.model = Ab("singleton", "singleton"), !.ops = Ab({"publish", "db"}, {"user", "read"}),
               !.subs = Ab({A, B}, {}), !.faults = {"trap", "instantiate"}],
   ring |-> [Base EXCEPT !.model = Ab("pooled", "pooled"), !.warm = Ab(<<1>>, <<2>>),
               !.ops = Ab({"publish", "read"}, {"publish", "read"}), !.subs = Ab({B}, {A}),
               !.calls = Both(<<One(A, "entry", u1)>>, <<One(B, "entry", u2)>>)],
   circle |-> [Base EXCEPT !.max = 4, !.model = Ab("singleton", "singleton"), !.ops = Ab({"publish"}, {"publish"}),
                 !.subs = Ab({B}, {A}), !.faults = {},
                 !.calls = Both(<<One(A, "entry", u1)>>, <<One(B, "entry", u2)>>)],
   closing |-> [Base EXCEPT !.ops = Ab({"publish"}, {"db"}), !.subs = Ab({B}, {}), !.warm = Ab(<<1>>, <<>>),
                  !.faults = {"close"},
                  !.calls = Both(<<One(A, "entry", u1)>>, <<One(B, "entry", u2)>>)]]

MCScenes == SceneTable
=============================================================================
