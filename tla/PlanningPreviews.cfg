SPECIFICATION PlanningSpec
CONSTANTS
    NoMax = NoMax
    Books <- OrderBooks
    Fleet <- Vehicles
    Warehouses <- SomeWarehouses
    TierTables <- TierSets
    Quantities = {5, 10, 25}
    Histories <- ShortHistories
    PlanRows = {{}, {4}, {4, 9}}
    Season = 2
INVARIANTS EachOrderOnce CandidatesFit StopsDeliverAll WarehouseOffered RecommendationUndominated ForecastSound
PROPERTY GivenUpRightly
CHECK_DEADLOCK FALSE
