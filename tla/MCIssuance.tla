------------------------------ MODULE MCIssuance ------------------------------
(* Instances of Issuance for TLC. *)
EXTENDS Issuance

Always == [from |-> 0, until |-> 9]

Certificate(roles, window) ==
  [roles |-> roles, scopes |-> {"court", "github-repository:*"},
   jurisdictions |-> {"law", "namespace-control"}, operations |-> {"INFORM"},
   from |-> window.from, until |-> window.until]

Bundle(issuer, source, revocations, profile, status) ==
  [certificates |->
     [key \in {"issuer", "source"} |->
        IF key = "issuer"
          THEN Certificate({"ISSUER", "REGISTRY", "DISCOVERY"}, issuer)
          ELSE Certificate({"SOURCE", "TRANSITION"}, source)],
   revocations |-> revocations, profile |-> profile, status |-> status]

From(from, until) == [from |-> from, until |-> until]

(* Renewals, a bundle that runs out, one that starts late, and revocations.  *)
SomeBundles ==
  {Bundle(Always, Always, {}, Always, Always),
   Bundle(From(0, 5), From(0, 4), {}, Always, From(0, 3)),
   Bundle(Always, Always, {}, From(0, 4), From(1, 6)),
   Bundle(Always, Always, {[key |-> "source", at |-> 2], [key |-> "delegate", at |-> 2]},
          Always, Always),
   Bundle(From(1, 4), Always, {[key |-> "issuer", at |-> 3]}, Always, Always)}

Statement(key, role, payload, operations, locator, until) ==
  [key |-> key, role |-> role, payload |-> payload, operations |-> operations,
   locator |-> locator, from |-> 0, until |-> until]

Grant(role, payloads, operations, until) ==
  [key |-> "delegate", role |-> role, scope |-> "repository",
   jurisdiction |-> "namespace-control", operations |-> operations,
   payloads |-> payloads, from |-> 0, until |-> until]

Manifest(until, grants) ==
  [namespace |-> "repository", from |-> 0, until |-> until, grants |-> grants]

Court(until, statements) ==
  [bounds |-> [scope |-> "court", jurisdiction |-> "law", from |-> 0, until |-> until],
   authority |-> {}, statements |-> statements]

Repository(until, manifest, statements) ==
  [bounds |-> [scope |-> "repository", jurisdiction |-> "namespace-control",
               from |-> 0, until |-> until],
   authority |-> {manifest}, statements |-> statements]

Source(payload, locator) ==
  Statement("delegate", "SOURCE", payload, {"INFORM"}, locator, 9)

(* Certificates and grants, a chain of two statements, the second of two      *)
(* grants, one that ends too soon, is for another payload or operation, and   *)
(* locators.                                                                  *)
SomeSubmissions ==
  {Court(9, {Statement("source", "SOURCE", "x", {"INFORM"}, "canonical", 9),
             Statement("source", "TRANSITION", "y", {"INFORM"}, "canonical", 9)}),
   Court(3, {Statement("source", "SOURCE", "x", {"EXECUTE"}, "canonical", 9)}),
   Repository(4, Manifest(6, <<Grant("TRANSITION", {"x"}, {"INFORM"}, 6),
                               Grant("SOURCE", {"x"}, {"INFORM"}, 5)>>),
              {Source("x", "canonical"),
               Statement("delegate", "TRANSITION", "x", {"INFORM"}, "canonical", 5)}),
   Repository(4, Manifest(6, <<Grant("SOURCE", {"x"}, {"INFORM"}, 3),
                               Grant("SOURCE", {"x"}, {"INFORM"}, 6)>>),
              {Source("x", "canonical")}),
   Repository(4, Manifest(6, <<Grant("SOURCE", {"x"}, {"INFORM"}, 6)>>), {Source("y", "canonical")}),
   Repository(4, Manifest(6, <<Grant("SOURCE", {"x"}, {"INFORM"}, 6)>>), {Source("x", "escaped")}),
   Repository(4, Manifest(6, <<Grant("SOURCE", {"x"}, {"INFORM"}, 6)>>),
              {Source("x", "unnormalized")}),
   Repository(4, Manifest(4, <<Grant("SOURCE", {"x"}, {"INFORM"}, 6)>>), {Source("x", "canonical")}),
   Repository(4, Manifest(3, <<Grant("SOURCE", {"x"}, {"INFORM"}, 3)>>),
              {Source("x", "canonical")})}

SomePayments == {[after |-> 0, before |-> 2], [after |-> 0, before |-> 3],
                 [after |-> 2, before |-> 5]}
=============================================================================
