CONSTANTS
  Pages = {"list", "map"}
  Topics = {"deployments", "dashboard"}
  NoTopic = NoTopic
  TopicOf <- Topic
  MaxTopics = 2
  RedisFails = TRUE
  MaxQueued = 2
  Feed = "deployments"
  Shows = {"list", "map"}
  MaxVersion = 2
  MaxActions = 1
SPECIFICATION ListSpec
INVARIANTS OneChain TopicsAgree 
PROPERTIES NoStepBack OwedShown
CHECK_DEADLOCK FALSE
