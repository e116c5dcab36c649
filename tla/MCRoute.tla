------------------------------ MODULE MCRoute ------------------------------
(* Routes and requests for TLC.                                            *)
EXTENDS Route, FiniteSetsExt

Verbs == {"GET", "HEAD", "POST"}
VerbPrefix ==
    [mth \in Verbs |->
       CASE mth = "GET" -> <<"G", "E", "T", ":">>
         [] mth = "HEAD" -> <<"H", "E", "A", "D", ":">>
         [] OTHER -> <<"P", "O", "S", "T", ":">>]

Get == VerbPrefix["GET"]

Keys ==
    { Get \o <<"/", "a">>,                     <<"/", "a">>,
      Get \o <<"/", ":", "x">>,                <<"/", ":", "x">>,
      VerbPrefix["POST"] \o <<"/", ":", "x">>,
      VerbPrefix["HEAD"] \o <<"/", "a">>,
      <<"/", "*">>,                            Get \o <<"/", "a", "/", "*">>,
      <<"/", ":", "x", "/", "b">>,             Get \o <<"/", "a", "/", ":", "y">>,
      <<"/", ":", "x", "/", ":", "y">> }

(* Up to three routes at a time. *)
FewKeys == kSubset(3, Keys) \cup kSubset(2, Keys) \cup kSubset(1, Keys) \cup {{}}

Paths3 == { <<"/">>, <<"/", "a">>, <<"/", "a", "/">>, <<"/", "a", "/", "b">>, <<"/", "c">>,
            <<"%", "2", "f">> }
=============================================================================
