----------------------------- MODULE MCSessions -----------------------------
(* Two conversations, a limit of one, and four ways in which clients meet. *)
EXTENDS Sessions, TLC

CONSTANTS s1, s2, c1, c2, r1, r2, r3

\* Two clients start one conversation while another runs at the limit.
AtLimit == (r1 :> <<"start", s2>>) @@ (r2 :> <<"start", s1>>) @@ (r3 :> <<"start", s1>>)

\* A client leaves and another comes while the conversation is stopped.
StopAndRejoin == (c1 :> <<"connect", s1>>) @@ (r1 :> <<"stop", s1>>) @@ (c2 :> <<"connect", s1>>)

\* Requests use a conversation beside its session.
Requests == (r1 :> <<"start", s1>>) @@ (r2 :> <<"attach", s1>>) @@ (r3 :> <<"attach", s1>>)

\* A request uses a conversation that is being stopped.
StopUnderRequest == (r1 :> <<"start", s1>>) @@ (r2 :> <<"stop", s1>>)
                      @@ (r3 :> <<"attach", s1>>)

MCScenarios == {AtLimit, StopAndRejoin, Requests, StopUnderRequest}
=============================================================================
