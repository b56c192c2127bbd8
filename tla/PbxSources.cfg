SPECIFICATION Spec
CONSTANTS
  Hosts = {h1, h2}
  NoHost = NoHost
  Configured = h1
  Wishes = {all, one}
  NoWish = NoWish
  MaxId = 1
  MaxNight = 2
  MaxDeaths = 1
INVARIANT SourcesInv
PROPERTIES OncePerNight RequestsAreTaken
