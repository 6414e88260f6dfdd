CONSTANTS
  Sockets = {"device", "backend", "monitor"}
  Wants <- ClientFilters
  Tells <- ClientTopics
  Flaky = {"monitor"}
  MaxMessages = 2
SPECIFICATION Spec
INVARIANTS TypeOK RegistryAgrees PublisherOrder
PROPERTIES AudienceServed GoneIsForgotten
