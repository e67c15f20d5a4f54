CONSTANTS
  Emissions <- MCEmissions
  Docs <- MCDocs
  Subpaths <- MCSubpaths
  Families <- MCFamilies
  Names <- MCNames
  ReservedKeys <- MCReservedKeys
  Values = {1, 2}
  MaxPriority = 2
  MaxSeq = 3
  MaxWalk = 5
SPECIFICATION SinksSpec
INVARIANTS
  SurvivorIsWinner IndexExact WalkOrder DocumentKeysUniqueG3 SinksAgreeOneDocument
PROPERTIES SlotsStable MapImplementsFold VecImplementsFold
CHECK_DEADLOCK FALSE
