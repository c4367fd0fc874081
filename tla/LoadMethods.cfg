CONSTANTS
  app = app
  framework = framework
  bundle = bundle
  plugin = plugin
  other = other
  Root = Root
  Super = Super
  Sub = Sub
  Two = Two
  Three = Three
  Four = Four
  SuperMore = SuperMore
  TwoMore = TwoMore
  RootMore = RootMore
  nil = nil
  Image = {app, framework, bundle, plugin, other}
  Group <- Groups
  Before <- Order
  Bundle = {bundle, plugin, other}
  clslist <- ClassSets
  nlclslist <- ClassLists
  nlcatlist <- CategoryLists
  Superclasses <- Lines
  ClassOf <- Extends
  ClosesWaiting = FALSE
  MaxList = 6
SPECIFICATION Spec
INVARIANTS NoneForgotten
PROPERTIES LoadOrder
