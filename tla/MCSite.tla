------------------------------ MODULE MCSite ------------------------------
EXTENDS Site
CONSTANTS x, y, a, b, f1, f2, m
ConstMountPaths == {<<x>>, <<y>>, <<x, a>>}
ConstLocal == <<x>>
ConstAsked == {<<>>, <<a>>, <<"..", a>>}
ConstShapes ==
    {[effect |-> "deny", actions |-> {"read", "share"}, priority |-> 1, inherit |-> TRUE],
     [effect |-> "allow", actions |-> {"read"}, priority |-> 2, inherit |-> FALSE]}
=============================================================================
