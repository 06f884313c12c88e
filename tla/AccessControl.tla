--------------------------- MODULE AccessControl ---------------------------
(***************************************************************************)
(* rbac: how a request is decided from the rules of model.ini, what the    *)
(* rules of a permission and of a policy are, and the reviews of access.   *)
(* rls/payload.go: the claims and the fingerprint of a user's scopes.      *)
(*                                                                         *)
(* A request's object is a name, [name |-> n], or a set of attributes,     *)
(* [attr |-> a], where a gives the id of a resource of each type, "" when  *)
(* there is none.  An action is a sequence, split at its colons.  A rule   *)
(* has a subject, an object or "*", an action, an effect and conditions: a *)
(* set of <<type, id>> and of selectors, which all have to hold.           *)
(***************************************************************************)
EXTENDS Naturals, SequencesExt

CONSTANTS Ids   \* ids of resources, without ""

Types == {"playbook", "connection", "component", "config", "check", "canary", "view"}
\* The types a Selectors has; the others are never restricted by one.
Selectable == Types \ {"check", "canary"}
IsString(obj) == "name" \in DOMAIN obj
NoAttributes == [t \in Types |-> ""]

-----------------------------------------------------------------------------
(* custom_functions.go.                                                    *)

\* ResourceSelector.Matches, for a name "*", which is every resource, or an id.
Matches(rs, id) == rs \in {"*", id}

\* Variant: an attribute that a request does not have is not restricted.
PairUnlessMissing(id, selectors) == id # "" => selectors = {} \/ \E rs \in selectors : Matches(rs, id)
\* matchResourceSelectorPair
MatchResourceSelectorPair(id, selectors) ==
  IF id # "" THEN selectors = {} \/ \E rs \in selectors : Matches(rs, id) ELSE selectors = {}

\* matchResourceSelector
MatchResourceSelector(attr, selector) == \A t \in Selectable : MatchResourceSelectorPair(attr[t], selector[t])

\* matchAction: any action, the same one, or any operation of a plugin.
MatchAction(request, act) ==
  \/ act = <<"*">> \/ act = request
  \/ act[1] = "invoke" /\ Len(act) = 3 /\ act[3] = "*" /\ Len(request) > 2 /\ SubSeq(request, 1, 2) = SubSeq(act, 1, 2)

-----------------------------------------------------------------------------
(* model.ini.                                                              *)

\* g: the roles of a subject, theirs and so on.
RECURSIVE RolesOf(_, _)
RolesOf(groups, subs) ==
  LET next == subs \union {g[2] : g \in {x \in groups : x[1] \in subs}} IN
  IF next = subs THEN subs ELSE RolesOf(groups, next)

Holds(cond, attr) == IF "id" \in DOMAIN cond THEN attr[cond.type] = cond.id ELSE MatchResourceSelector(attr, cond.selector)

\* matchers
Applies(rule, roles, obj, act) ==
  /\ rule.sub \in roles
  /\ rule.obj = "*" \/ (IsString(obj) /\ rule.obj = obj.name)
  /\ MatchAction(act, rule.act)
  /\ rule.conditions = {} \/ (~IsString(obj) /\ \A c \in rule.conditions : Holds(c, obj.attr))

\* policy_effect: one that allows and none that denies.
Enforce(rules, groups, sub, obj, act) ==
  LET roles == RolesOf(groups, {sub})
      effects == {r.eft : r \in {x \in rules : Applies(x, roles, obj, act)}}
  IN  "allow" \in effects /\ "deny" \notin effects

\* CheckContext: every account reads what a viewer reads.
CheckContext(rules, groups, user, name, act) ==
  \/ act = <<"read">> /\ Enforce(rules, groups \union {<<"viewer", "everyone">>}, "viewer", [name |-> name], act)
  \/ Enforce(rules, groups \union {<<user, "everyone">>}, user, [name |-> name], act)

-----------------------------------------------------------------------------
(* Where rules come from.                                                  *)

\* Permission.Principal, in the order of the fields that name the subject.
Principal(p) == LET named == SelectSeq(p.subjects, LAMBDA s : s # "") IN IF named = << >> THEN "" ELSE Head(named)

\* Permission.Condition: its selector and the resources it is tied to.
NoSelectors == [t \in Selectable |-> {}]
Conditions(p) ==
  {[type |-> t, id |-> p.ids[t]] : t \in {x \in Types \ {"check", "view"} : p.ids[x] # ""}}
    \union (IF p.selector = NoSelectors THEN {} ELSE {[selector |-> p.selector]})

\* Permission.GetObject and Effect.
RuleOf(p) ==
  [sub |-> Principal(p), obj |-> IF p.object = "" THEN "*" ELSE p.object, act |-> p.action,
   eft |-> IF p.deny THEN "deny" ELSE "allow", conditions |-> Conditions(p)]

\* Policy.GetPolicyDefintions and ACL.GetPolicyDefinition: a rule for each object and
\* action, which denies when the action starts with "!".
PolicyDefinitions(policy) ==
  UNION {{[sub |-> IF acl.principal = "" THEN policy.principal ELSE acl.principal, obj |-> o,
           act |-> IF Head(a) = "!" THEN Tail(a) ELSE a, eft |-> IF Head(a) = "!" THEN "deny" ELSE "allow",
           conditions |-> {}] : o \in acl.objects, a \in acl.actions} : acl \in policy.acls}

\* Permission.ToArgs and NewPermission: the strings of a rule and back.
ToArgs(p) == <<p.subject, p.object, p.action, IF p.deny THEN "deny" ELSE "", p.condition, p.id>>
NewPermission(args) ==
  LET At(i) == IF i <= Len(args) THEN args[i] ELSE ""
  IN  [subject |-> At(1), object |-> At(2), action |-> At(3), deny |-> At(4) = "deny", condition |-> At(5), id |-> At(6)]

Run == {<<"mcp", "run">>, <<"mcp", "use">>, <<"read">>}
\* ABACObjectSelector: the resources that a permission on a global object is about too.
ABACObjectSelector(object, act) ==
  LET All(t) == [NoSelectors EXCEPT ![t] = {"*"}] IN
  CASE object = "playbooks" /\ act \in Run \union {<<"playbook", a>> : a \in {"run", "approve", "cancel"}} -> All("playbook")
    [] object = "catalog" /\ act = <<"read">> -> All("config")
    [] object = "topology" /\ act = <<"read">> -> All("component")
    [] object = "connection" /\ act = <<"read">> -> All("connection")
    [] object = "views" /\ act \in Run -> All("view")
    [] OTHER -> NoSelectors

\* AllActions
AllActions ==
  {<<a>> : a \in {"create", "read", "update", "delete"}} \union {<<"playbook", a>> : a \in {"run", "approve", "cancel"}}
    \union {<<"mcp", a>> : a \in {"run", "use"}}

\* GetActionFromHttpMethod
GetActionFromHttpMethod(method) ==
  CASE method = "GET" -> <<"read">> [] method = "PATCH" -> <<"update">> [] method = "POST" -> <<"create">>
    [] method = "DELETE" -> <<"delete">> [] OTHER -> << >>

-----------------------------------------------------------------------------
(* access_review.go.  A world w has the rules and groups, the subjects of  *)
(* the permission_subjects view and the resources that are not deleted,    *)
(* a set of <<type, id>>.                                                  *)

Error == "error"
MaxSubjects == 500
Missing == [t \in Types |-> Error]

\* resolveAccessReviewSubjects
ResolveAccessReviewSubjects(w, subjects) ==
  IF subjects = <<"*">> THEN SetToSeq(w.subjects \ {""}) ELSE subjects

\* resolveAccessReviewResource: all the resources named, which have to exist.
ResolveAccessReviewResource(w, resource) ==
  IF \E t \in DOMAIN resource \intersect Types : <<t, resource[t]>> \notin w.resources THEN Missing
  ELSE [t \in Types |-> IF t \in DOMAIN resource THEN resource[t] ELSE ""]

\* RunSubjectAccessReview
RunSubjectAccessReview(w, resource, act, asked) ==
  LET subjects == ResolveAccessReviewSubjects(w, asked)
      attr == ResolveAccessReviewResource(w, resource)
      Allowed(s) == IF "global" \in DOMAIN resource
                    THEN Enforce(w.rules, w.groups \union {<<s, "everyone">>}, s, [name |-> resource.global], act)
                    ELSE Enforce(w.rules, w.groups, s, [attr |-> attr], act)
  IN  IF Len(subjects) > MaxSubjects \/ attr = Missing THEN Error
      ELSE [i \in DOMAIN subjects |->
              [subject |-> subjects[i], allowed |-> subjects[i] # "" /\ Allowed(subjects[i])]]

\* SubjectAccessReviewRequest.Validate
ValidReview(resource, act, asked) == DOMAIN resource # {} /\ act \in AllActions /\ asked # << >>

\* RunSubjectAccessSearch: playbooks and views unless it asks for others.
SearchTypes(types) == IF types = {} THEN {"playbook", "view"} ELSE types
RunSubjectAccessSearch(w, subject, act, types) ==
  IF subject = "" \/ act \notin AllActions \/ ~ SearchTypes(types) \subseteq {"playbook", "view", "connection"} THEN Error
  ELSE {r \in w.resources : /\ r[1] \in SearchTypes(types)
                            /\ RunSubjectAccessReview(w, r[1] :> r[2], act, <<subject>>)[1].allowed}

-----------------------------------------------------------------------------
(* rls/payload.go.  A payload has a sequence of scopes for each of five    *)
(* resources, ids of scopes, and whether it is disabled.  A scope has a    *)
(* set of parts, its tags, agents, names and id, and denies or allows.     *)

Scoped == {"config", "component", "playbook", "canary", "view"}
\* Scope.IsEmpty: one that has no parts, whether it denies or allows.
EmptyScope(s) == s.parts = {}
\* JWTClaims
JWTClaims(p) ==
  IF p.disable THEN {<<"disable_rls", TRUE>>}
  ELSE {<<r, p[r]>> : r \in {x \in Scoped : p[x] # << >>}} \union (IF p.scopes = {} THEN {} ELSE {<<"scopes", p.scopes>>})

\* EvalFingerprint: the scopes that are not empty, sorted, whatever they are scopes of.
EvalFingerprint(p) ==
  LET parts(r) == SelectSeq(p[r], LAMBDA s : ~EmptyScope(s))
      all == FlattenSeq([i \in 1..5 |-> parts(<<"config", "component", "playbook", "canary", "view">>[i])])
  IN  IF p.disable THEN [is |-> "disabled", parts |-> ToBag(<< >>), ids |-> {}]
      ELSE [is |-> IF all = << >> /\ p.scopes = {} THEN "empty" ELSE "scoped", parts |-> ToBag(all), ids |-> p.scopes]

-----------------------------------------------------------------------------
(* Properties.                                                             *)

\* Condition, ABACObjectSelector and the matcher: a permission tied to resources allows
\* requests about those and no others; one on a global object allows, with its companion,
\* what it allows by name on each of the resources it stands for.
GrantsFollowResources(p, obj, act) ==
  LET sub == Principal(p)
      tied == {t \in Types \ {"check", "view"} : p.ids[t] # ""}
      global == tied = {} /\ p.selector = NoSelectors
      companion == [p EXCEPT !.object = "", !.selector = ABACObjectSelector(p.object, p.action)]
      rules == {RuleOf(p)} \union (IF ~global \/ companion.selector = NoSelectors THEN {} ELSE {RuleOf(companion)})
      allowed == Enforce(rules, {}, sub, obj, act) IN
  /\ allowed /\ ~global
       => /\ ~IsString(obj) /\ \A t \in tied : obj.attr[t] = p.ids[t]
          /\ \A t \in Selectable : p.selector[t] # {} => obj.attr[t] \in p.selector[t] \union Ids
                                     /\ ("*" \in p.selector[t] \/ obj.attr[t] \in p.selector[t])
  /\ p.deny => ~allowed
  /\ ~p.deny /\ act = p.action /\ global /\ ~IsString(obj) =>
       \A t \in Selectable : ABACObjectSelector(p.object, act)[t] # {} => (allowed <=> obj.attr[t] # "")

\* RunSubjectAccessSearch and RunSubjectAccessReview: a search finds what a review of every
\* subject says that it is allowed.
SearchAgreesWithReview(w, act) ==
  \A s \in w.subjects \ {""}, t \in {"playbook", "view", "connection"} : \A id \in Ids :
    <<t, id>> \in w.resources =>
      (<<t, id>> \in RunSubjectAccessSearch(w, s, act, {t})
         <=> \E i \in DOMAIN RunSubjectAccessReview(w, t :> id, act, <<"*">>) :
               RunSubjectAccessReview(w, t :> id, act, <<"*">>)[i] = [subject |-> s, allowed |-> TRUE])

SameScopes(p, q, r) ==
  ToBag(SelectSeq(p[r], LAMBDA s : ~EmptyScope(s))) = ToBag(SelectSeq(q[r], LAMBDA s : ~EmptyScope(s)))

\* EvalFingerprint: "Same scopes in different order should produce the same fingerprint", and
\* payloads that differ in their ids, or in the scopes that are not empty of exactly one
\* resource, have different ones.  No more than that: a scope that moves from one resource
\* to another leaves the fingerprint as it was, and so does one that only denies, which is empty.
FingerprintFollowsScopes(p, q) ==
  LET differ == {r \in Scoped : ~SameScopes(p, q, r)} IN
  /\ p.disable = q.disable /\ p.scopes = q.scopes /\ differ = {} => EvalFingerprint(p) = EvalFingerprint(q)
  /\ EvalFingerprint(p) = EvalFingerprint(q) =>
       /\ p.disable = q.disable
       /\ p.disable \/ (p.scopes = q.scopes /\ Cardinality(differ) # 1)
=============================================================================
