--------------------------- MODULE MCAppSettings ---------------------------
(***************************************************************************)
(* Two servers, one typed with a trailing blank, one user, one password    *)
(* typed with or without one; each value has one proper prefix besides the *)
(* empty one.                                                              *)
(***************************************************************************)
EXTENDS AppSettings

MCValues == {NoText, "http://a", "http://a ", "http://b", "user", "pass", "pass ",
             "dev-a", "dev-b", "htt", "us", "pas", "dev"}

MCTyped ==
  [f \in {"url", "username", "password"} |->
     CASE f = "url" -> {"http://a ", "http://b"}
       [] f = "username" -> {"user"}
       [] f = "password" -> {"pass", "pass "}]

MCAsLoaded ==
  [v \in MCValues |-> CASE v = "pass " -> "pass"
                       [] v = "http://a " -> "http://a"
                       [] OTHER -> v]

MCCutsOf ==
  [v \in MCValues |->
     CASE v \in {"http://a", "http://b"} -> {NoText, "htt"}
       [] v = "http://a " -> {NoText, "htt", "http://a"}
       [] v = "user" -> {NoText, "us"}
       [] v = "pass" -> {NoText, "pas"}
       [] v = "pass " -> {NoText, "pas", "pass"}
       [] v \in {"dev-a", "dev-b"} -> {NoText, "dev"}
       [] OTHER -> {NoText}]

MCDeviceOf == [u \in {"http://a", "http://b"} |->
                 IF u = "http://a" THEN "dev-a" ELSE "dev-b"]

=============================================================================
