---------------------------- MODULE AccessRules ----------------------------
(***************************************************************************)
(* Access control: ACLService, which keeps the rules, and ACLAuthorizer,   *)
(* which decides by them.  rules maps ids to rules; a rule is bound to a   *)
(* node of the metadata tree, or to a virtual path when there was no node  *)
(* when it was made.  config is the record of the system configuration,    *)
(* or NoConfig.  Rules from before virtual paths are left out.             *)
(***************************************************************************)
EXTENDS SourceMounts

Actions == {"read", "write", "delete", "share"}

NoConfig == [default |-> NoSource, multi |-> FALSE, exists |-> FALSE]

-----------------------------------------------------------------------------
(* ACLService *)

\* buildRuleEntity for a node: the rule has the source of the node, if any.
RuleForNode(site, id, subject, shape) ==
    [subject |-> subject, source |-> site.tree.node[id].source, node |-> id,
     path |-> site.tree.node[id].path] @@ shape

\* buildRuleEntity for a path in a source: bound to the node that is there now,
\* and to the path when there is none.
RuleForPath(site, s, inner, subject, shape) ==
    LET path == Merge(site.source[s].mount, inner)
    IN  [subject |-> subject, source |-> s, node |-> Find(site.tree, path), path |-> path] @@ shape

-----------------------------------------------------------------------------
(* ACLAuthorizer *)

\* ACLRuleRepository.List for a source: its rules and the global ones
RulesOf(rules, s) == {i \in DOMAIN rules : rules[i].source \in {s, NoSource}}

\* List orders by priority, highest first, then by id.
Sorted(rules, ids) ==
    SetToSortSeq(ids, LAMBDA i, j : \/ rules[i].priority > rules[j].priority
                                    \/ rules[i].priority = rules[j].priority /\ i < j)

\* newEvaluator: nobody is asked about rules
Bypass(role, rules, config, s) ==
    \/ role = "super_admin"
    \/ RulesOf(rules, s) = {} /\ ~config.multi

\* newEvaluator: the rules, none of them when there is no configuration
Evaluator(rules, config, s) ==
    IF config.exists THEN Sorted(rules, RulesOf(rules, s)) ELSE <<>>

\* ruleMatchesTarget, with ruleMatchesNode, ruleMatchesNodePath and ruleMatchesPath.
\* target is the node at path, or NoId.
RuleMatches(d, r, path, target) ==
    LET Covers(base, at) == r.inherit /\ IsSubPath(base, at)
    IN  IF r.node = NoId THEN r.path = path \/ Covers(r.path, path)
        ELSE /\ r.node \in DOMAIN d.node
             /\ LET base == d.node[r.node].path
                IN  IF target # NoId THEN r.node = target \/ Covers(base, d.node[target].path)
                    ELSE base = path \/ Covers(base, path)

Undecided == [priority |-> 0, matched |-> FALSE, allow |-> FALSE, done |-> FALSE]

\* Mutant: a rule of lower priority is listened to as well.
MutantLoopStep(r, acc) ==
    IF r.effect = "deny" THEN [acc EXCEPT !.allow = FALSE, !.done = TRUE]
    ELSE [acc EXCEPT !.matched = TRUE, !.allow = TRUE]

\* The body of allowTarget's loop for a rule that matches
LoopStep(r, acc) ==
    CASE acc.matched /\ r.priority < acc.priority -> [acc EXCEPT !.done = TRUE]
      [] ~(acc.matched /\ r.priority < acc.priority) /\ r.effect = "deny" ->
            [acc EXCEPT !.allow = FALSE, !.done = TRUE]
      [] OTHER -> [acc EXCEPT !.matched = TRUE, !.priority = r.priority, !.allow = TRUE]

\* allowTarget
AllowTarget(d, rules, order, subject, path, target, action) ==
    LET Consider(acc, i) ==
            LET r == rules[i]
            IN  IF ~acc.done /\ r.subject = subject /\ action \in r.actions
                    /\ RuleMatches(d, r, path, target)
                THEN LoopStep(r, acc) ELSE acc
    IN  FoldLeft(Consider, Undecided, order).allow

\* AuthorizeVirtualPath.  A path outside of the source's mount is refused, and so
\* is everything in a source that is gone.
AuthorizeVirtualPath(site, rules, config, role, subject, s, path, target, action) ==
    \/ Bypass(role, rules, config, s)
    \/ /\ s \in DOMAIN site.source
       /\ IsSubPath(site.source[s].mount, path)
       /\ AllowTarget(site.tree, rules, Evaluator(rules, config, s), subject, path, target, action)

\* AuthorizePath, for a path in the source
AuthorizePath(site, rules, config, role, subject, s, inner, action) ==
    \/ Bypass(role, rules, config, s)
    \/ /\ s \in DOMAIN site.source
       /\ LET path == Merge(site.source[s].mount, inner)
          IN  AllowTarget(site.tree, rules, Evaluator(rules, config, s), subject, path,
                          Find(site.tree, path), action)

\* FilterVFSItems: the nodes of a listing that a user gets to see
Visible(site, rules, config, role, subject, s, ids) ==
    {i \in ids : AuthorizeVirtualPath(site, rules, config, role, subject, s,
                                      site.tree.node[i].path, i, "read")}

\* currentRuleVirtualPath
RulePath(d, r) == IF r.node \in DOMAIN d.node THEN d.node[r.node].path ELSE r.path

\* CanSeeSource: some allowing rule still allows one of its actions, where the
\* rule and the mount meet.
CanSeeSource(site, rules, config, role, subject, s) ==
    LET mount == site.source[s].mount
        d == site.tree
        order == Evaluator(rules, config, s)
        Exposes(r) ==
            LET path == RulePath(d, r)
                at == IF IsSubPath(path, mount) THEN mount ELSE path
            IN  /\ r.subject = subject /\ r.effect = "allow"
                /\ IsSubPath(path, mount) \/ IsSubPath(mount, path)
                /\ \E a \in r.actions : AllowTarget(d, rules, order, subject, at, Find(d, at), a)
    IN  Bypass(role, rules, config, s) \/ \E k \in DOMAIN order : Exposes(rules[order[k]])

-----------------------------------------------------------------------------
(* What the decisions promise, stated without paths, order or loop *)

\* A node and the nodes above it, by their parents
Ancestors(d, id) ==
    LET Up(n) == {n} \cup IF d.node[n].parent = NoId THEN {} ELSE {d.node[n].parent}
        Climb(set, k) == UNION {Up(n) : n \in set}
    IN  FoldLeft(Climb, {id}, [k \in 1 .. Len(d.node[id].path) |-> k])

\* The rules that are about an action of a user on a node
Concerning(site, rules, s, subject, id, action) ==
    LET path == site.tree.node[id].path
        above == Ancestors(site.tree, id)
    IN  {i \in RulesOf(rules, s) :
        LET r == rules[i]
        IN  /\ r.subject = subject /\ action \in r.actions
            /\ IF r.node # NoId
               THEN r.node = id \/ (r.inherit /\ r.node \in above)
               ELSE r.path = path \/ (r.inherit /\ IsSubPath(r.path, path))}

\* Of these, the ones of the highest priority decide: there is one, and none denies.
MayDo(site, rules, s, subject, id, action) ==
    LET all == Concerning(site, rules, s, subject, id, action)
        top == {i \in all : \A j \in all : rules[j].priority <= rules[i].priority}
    IN  top # {} /\ \A i \in top : rules[i].effect = "allow"
=============================================================================
