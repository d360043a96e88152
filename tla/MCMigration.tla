----------------------------- MODULE MCMigration -----------------------------
(***************************************************************************)
(* Migration with the constants TLC checks it on: containers in which each *)
(* variable is bound in another way, to a key of a secret or a version of  *)
(* it, a whole secret, a parameter by its path, by a bare name or in       *)
(* another account, or a literal, also one of a reserved name.             *)
(***************************************************************************)
EXTENDS Migration

PointerNames == [n \in Names |-> CASE n = "DB_URL" -> "db-url" [] n = "API_TOKEN" -> "api-token"
                                   [] OTHER -> "aws-profile"]
Paths == [t \in Targets |-> IF t = "shared/api" THEN "/shared/api" ELSE t]

Literal == Binding("plain", None, None)
Nothing == Binding("absent", None, None)
Field(t, k) == Binding("secret", t, k)
Whole(t) == Binding("secret", t, None)
Parameter(t) == Binding("parameter", t, None)
Pinned(e, p) == [e EXCEPT !.pin = p]

Container(d, a, r) == [n \in Names |-> CASE n = "DB_URL" -> d [] n = "API_TOKEN" -> a [] OTHER -> r]

Containers == {Container(Field("db", "url"), Whole("api"), Nothing),
               Container(Field("db", "url"), Literal, Literal),
               Container(Literal, Parameter("/shared/api"), Nothing),
               Container(Literal, Parameter("shared/api"), Whole("api")),
               Container(Pinned(Field("db", "url"), "previous"),
                         Pinned(Parameter("/shared/api"), "elsewhere"), Literal)}
===============================================================================
