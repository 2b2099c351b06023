SPECIFICATION BackendsSpec
CONSTANTS
  Clients = {c1, c2}
  Workers = {w1, w2}
  Batches = {b1, b2, b3}
  NoBatch = NoBatch
  MaxBatch <- MCMaxBatch
  Sizes = {1, 3}
  NoClient = NoClient
  Networks = 2
  DemuxSizes = {0, 1, 4}
  MinimumSplits = {0, 3}
  NaN = NaN
  Outputs <- MCOutputs
  Lengths = {2}
  Modes = {"check", "display", "histo"}
  Searchers = {s1, s2}
  CudnnNets <- MCCudnnNets
  CudnnOptions <- MCCudnnOptions
  MaxBatchSize = 2
  BatchSizes = {2}
  Computations = 3
  BlasNets <- MCBlasNets
  BatchOptions = {1, 2, 3000}
  PlaneCounts = {1, 2, 3, 5}
  WarpSize = 2
  Units <- MCUnits
  Plane = 4
  BlockSize = 16
  KernelShapes <- MCKernelShapes
  ConvolutionShapes <- MCConvolutionShapes
INVARIANTS
  MuxedResultsAreMine
  DemuxedPiecesAreMine
  CheckReportIsTrue
  BackendsComputeTheNetwork
  WritesFitTheirBuffers
  KernelsComputeTheirLayers
  FusedUnitInOrder
PROPERTIES
  ComputationsReturn
CHECK_DEADLOCK FALSE
