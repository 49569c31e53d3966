---- MODULE MCLiveList ----
EXTENDS LiveList
Topic == [p \in Pages |-> CASE p = "list" -> "deployments" [] p = "map" -> "dashboard" [] OTHER -> NoTopic]
====
