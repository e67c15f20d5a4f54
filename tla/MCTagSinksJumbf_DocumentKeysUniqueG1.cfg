CONSTANTS
  Emissions <- JumbfEmissions
  Docs <- JumbfDocs
  Subpaths <- MCSubpaths
  Families <- JumbfFamilies
  Names <- JumbfNames
  ReservedKeys <- MCReservedKeys
  Values = {1, 2}
  MaxPriority = 2
  MaxSeq = 100
  MaxWalk = 3
SPECIFICATION SinksSpec
INVARIANT DocumentKeysUniqueG1
CHECK_DEADLOCK FALSE
