SPECIFICATION FairSpec
CONSTANTS
  N = 3
  Optional <- MCOptional
  Asks <- MCAsks
  Pins <- MCPins
  MaxUpsets = 1
INVARIANTS DoneIsBuilt PipelineOrder
PROPERTIES RedoneOnlyIfAsked ResumeConverges ImplementsPipeline
