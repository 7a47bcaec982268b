---------------------------- MODULE MCAdmission ----------------------------
(***************************************************************************)
(* TLC instance of Admission: a node that is chosen an xray or a sing core *)
(* and a connection to it.  Connections do not act on each other.          *)
(***************************************************************************)
EXTENDS Admission, TLC

CONSTANTS t1, x1, s1, c1

MCTypeOf == x1 :> "xray" @@ s1 :> "sing"
MCProtocols == x1 :> {"vless"} @@ s1 :> {"vless", "hysteria2"}
\* Core and CoreName not given, given with no core of that name or type, and
\* contradicting each other.
MCTexts ==
    { [name |-> None, core |-> None], [name |-> None, core |-> Stray],
      [name |-> Stray, core |-> None], [name |-> x1, core |-> "sing"] }

MCTagOf == c1 :> t1
MCDestOf == c1 :> "d1"
MCProtoOf == c1 :> "tls"
MCRuleSets ==
    { [domain |-> <<"d2", "d1">>, protocol |-> <<"tls">>],
      [domain |-> <<"bad">>, protocol |-> <<>>],
      [domain |-> <<>>, protocol |-> <<"tls">>] }
MCUserSets == {{"u1"}, {"u1", "u2"}}
=============================================================================
