SPECIFICATION FairPlan
CONSTANTS
  Plans <- MCPlans
  MaxSteps = 4

  
PROPERTY
  PlanEnds
