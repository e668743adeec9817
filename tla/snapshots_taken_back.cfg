SPECIFICATION Spec
CONSTANTS Clerks = {c1} Keys = {k1} LastDay = 3 Quantities = {1} Holdings = {1} Costs = {1} Prices = {1} Declared = {3} MaxEntries = 1 MaxStamps = 1 MaxOver = 1 Ahead = FALSE
CHECK_DEADLOCK FALSE
INVARIANT TakenBackForgotten
